---- MODULE Spec2Model ----
(***************************************************************************)
(* A model of SpongeQuant's orchestration core (src/app/app.py): the       *)
(* parameter resolution of the method executors, the download step with    *)
(* its completeness oracle, the five method executors, the publisher and   *)
(* the top-level generator quant_tavern_ui with its growing transcript.    *)
(*                                                                         *)
(* Python strings are TLA+ strings; a character is a string of length 1.   *)
(* A generator is modelled by its suspension points: one action runs the   *)
(* code from one yield of quant_tavern_ui to its next yield.               *)
(***************************************************************************)
EXTENDS Integers, Sequences, FiniteSets, TLC

VARIABLES
    args,       \* the arguments of quant_tavern_ui (a record, fixed for one run)
    env,        \* the world outside the program: remote listings, installed libraries
    fs,         \* the filesystem: models/, quantized_models/, the imatrix file
    full_log,   \* quant_tavern_ui's full_log, a sequence of transcript lines
    yielded,    \* the value of the latest yield of quant_tavern_ui
    nyields,    \* how many values quant_tavern_ui has yielded
    pc,         \* where quant_tavern_ui (and the generator it drains) is suspended
    hist,       \* the external effects so far, in order (calls, processes, uploads)
    faults,     \* how many external failures have happened in this run
    raw,        \* resolver check: the raw parameter string under test
    res         \* resolver check: the latest resolution of raw

vars == <<args, env, fs, full_log, yielded, nyields, pc, hist, faults, raw, res>>

(***************************************************************************)
(* Bounds of the model.                                                    *)
(***************************************************************************)
MaxRawLen == 5      \* longest enumerated raw parameter string
MaxFaults == 1      \* external failures (non-zero exits, raised calls) per run

(***************************************************************************)
(* Python string operations.                                               *)
(***************************************************************************)
Char(s, i) == SubSeq(s, i, i)

Last(s) == Char(s, Len(s))

IsSpace(c) == c \in {" ", "\t", "\n", "\r"}

RECURSIVE LStrip(_)
LStrip(s) == IF s = "" THEN "" ELSE IF IsSpace(Head(s)) THEN LStrip(Tail(s)) ELSE s

RECURSIVE RStrip(_)
RStrip(s) ==
    IF s = "" THEN ""
    ELSE IF IsSpace(Last(s)) THEN RStrip(SubSeq(s, 1, Len(s) - 1)) ELSE s

\* str.strip()
Strip(s) == RStrip(LStrip(s))

RECURSIVE SplitFrom(_, _, _)
SplitFrom(s, sep, cur) ==
    IF s = "" THEN <<cur>>
    ELSE IF Head(s) = sep THEN <<cur>> \o SplitFrom(Tail(s), sep, "")
    ELSE SplitFrom(Tail(s), sep, cur \o Head(s))

\* str.split(sep) for a one-character separator: "".split(",") is [""]
Split(s, sep) == SplitFrom(s, sep, "")

\* str.splitlines(): no final empty piece, "" has no lines
SplitLines(s) ==
    LET pieces == Split(s, "\n")
    IN  IF pieces[Len(pieces)] = "" THEN SubSeq(pieces, 1, Len(pieces) - 1) ELSE pieces

RECURSIVE RemoveChar(_, _)
\* str.replace(c, "")
RemoveChar(s, c) ==
    IF s = "" THEN ""
    ELSE IF Head(s) = c THEN RemoveChar(Tail(s), c)
    ELSE Head(s) \o RemoveChar(Tail(s), c)

LowerCase == "abcdefghijklmnopqrstuvwxyz"
UpperCase == "ABCDEFGHIJKLMNOPQRSTUVWXYZ"

\* the letter c moved from one case to the other, any other character as it is
CaseOf(c, from, to) ==
    IF \E i \in 1..26 : Char(from, i) = c
    THEN Char(to, CHOOSE i \in 1..26 : Char(from, i) = c)
    ELSE c

RECURSIVE Upper(_)
\* str.upper()
Upper(s) == IF s = "" THEN "" ELSE CaseOf(Head(s), LowerCase, UpperCase) \o Upper(Tail(s))

RECURSIVE Lower(_)
\* str.lower()
Lower(s) == IF s = "" THEN "" ELSE CaseOf(Head(s), UpperCase, LowerCase) \o Lower(Tail(s))

\* str.startswith(p)
StartsWith(s, p) == Len(s) >= Len(p) /\ SubSeq(s, 1, Len(p)) = p

\* str.endswith(p)
EndsWith(s, p) == Len(s) >= Len(p) /\ SubSeq(s, Len(s) - Len(p) + 1, Len(s)) = p

\* [f(x) for x in seq]
MapSeq(F(_), seq) == [i \in 1..Len(seq) |-> F(seq[i])]

(***************************************************************************)
(* Python's int() and float() on decimal literals.  A float is kept exact  *)
(* as <<m, k>>, the number m / 10^k with the trailing zeros removed.       *)
(***************************************************************************)
Digits == "0123456789"

IsDigit(c) == \E i \in 1..10 : Char(Digits, i) = c

DigitVal(c) == (CHOOSE i \in 1..10 : Char(Digits, i) = c) - 1

AllDigits(s) == \A i \in 1..Len(s) : IsDigit(Char(s, i))

Unsigned(s) == IF s # "" /\ Head(s) \in {"+", "-"} THEN Tail(s) ELSE s

Sign(s) == IF s # "" /\ Head(s) = "-" THEN -1 ELSE 1

RECURSIVE DigitsVal(_)
DigitsVal(s) ==
    IF s = "" THEN 0 ELSE DigitsVal(SubSeq(s, 1, Len(s) - 1)) * 10 + DigitVal(Last(s))

\* int(s) succeeds
IsInt(s) == LET u == Unsigned(Strip(s)) IN u # "" /\ AllDigits(u)

\* int(s), when it succeeds
IntVal(s) == Sign(Strip(s)) * DigitsVal(Unsigned(Strip(s)))

\* float(s) succeeds: digits with at most one point, and at least one digit
IsFloat(s) ==
    LET u == Unsigned(Strip(s))
        p == Split(u, ".")
    IN  /\ Len(p) \in {1, 2}
        /\ \A i \in 1..Len(p) : AllDigits(p[i])
        /\ \E i \in 1..Len(p) : p[i] # ""

RECURSIVE Normal(_)
Normal(f) == IF f[2] > 0 /\ f[1] % 10 = 0 THEN Normal(<<f[1] \div 10, f[2] - 1>>) ELSE f

\* float(s), when it succeeds
FloatVal(s) ==
    LET u == Unsigned(Strip(s))
        p == Split(u, ".")
        frac == IF Len(p) = 2 THEN p[2] ELSE ""
        m == DigitsVal(p[1] \o frac)
    IN  Normal(<<Sign(Strip(s)) * m, Len(frac)>>)

RECURSIVE NatText(_)
\* str(n) for a natural number
NatText(n) == IF n < 10 THEN Char(Digits, n + 1) ELSE NatText(n \div 10) \o Char(Digits, (n % 10) + 1)

(***************************************************************************)
(* Parameter resolution of the method executors.  A resolution is a record *)
(* [raised, params, warns]: whether the parse raised ValueError, the tuple *)
(* the executor goes on with, and the warning lines it yields meanwhile.   *)
(***************************************************************************)
GPTQ_defaults == <<4, 128, <<1, 1>>>>
AWQ_defaults == <<4, 128, "GEMM", TRUE>>
HQQ_defaults == <<2, 128>>
EXL2_default == <<45, 1>>

Raised == [raised |-> TRUE, params |-> <<>>, warns |-> 0]

Resolved(p, w) == [raised |-> FALSE, params |-> p, warns |-> w]

\* [p.strip() for p in additional_param.split(",")]
Parts(additional_param) == MapSeq(Strip, Split(additional_param, ","))

\* a resolver that keeps the fields it was given and fills in the rest
gptq_params_merged(additional_param) ==
    IF Strip(additional_param) # ""
    THEN LET parts == Parts(additional_param)
             given(i) == i <= Len(parts) /\ parts[i] # ""
         IN  IF \A i \in 1..2 : given(i) => IsInt(parts[i])
             THEN IF given(3) /\ ~IsFloat(parts[3]) THEN Raised
                  ELSE Resolved(<<IF given(1) THEN IntVal(parts[1]) ELSE 4,
                                  IF given(2) THEN IntVal(parts[2]) ELSE 128,
                                  IF given(3) THEN FloatVal(parts[3]) ELSE <<1, 1>>>>,
                                IF Len(parts) >= 3 THEN 0 ELSE 1)
             ELSE Raised
    ELSE Resolved(<<4, 128, <<1, 1>>>>, 0)

gptq_params(additional_param) ==
    IF Strip(additional_param) # ""
    THEN LET parts == Parts(additional_param)
         IN  IF Len(parts) >= 3
             THEN IF IsInt(parts[1]) /\ IsInt(parts[2]) /\ IsFloat(parts[3])
                  THEN Resolved(<<IntVal(parts[1]), IntVal(parts[2]), FloatVal(parts[3])>>, 0)
                  ELSE Raised
             ELSE Resolved(GPTQ_defaults, 1)
    ELSE Resolved(GPTQ_defaults, 0)

exllamav2_params(additional_param) ==
    IF Strip(additional_param) # ""
    THEN IF IsFloat(additional_param)
         THEN Resolved(<<FloatVal(additional_param)>>, 0)
         ELSE Raised
    ELSE Resolved(<<EXL2_default>>, 0)

awq_params(additional_param) ==
    IF Strip(additional_param) # ""
    THEN LET parts == Parts(additional_param)
         IN  IF Len(parts) >= 4
             THEN IF IsInt(parts[1]) /\ IsInt(parts[2])
                  THEN Resolved(<<IntVal(parts[1]), IntVal(parts[2]), parts[3],
                                  Lower(parts[4]) \in {"true", "1", "yes"}>>, 0)
                  ELSE Raised
             ELSE Resolved(AWQ_defaults, 1)
    ELSE Resolved(AWQ_defaults, 0)

hqq_params(additional_param) ==
    IF Strip(additional_param) # ""
    THEN LET parts == Parts(additional_param)
         IN  IF Len(parts) >= 2
             THEN IF IsInt(parts[1]) /\ IsInt(parts[2])
                  THEN Resolved(<<IntVal(parts[1]), IntVal(parts[2])>>, 0)
                  ELSE Raised
             ELSE Resolved(HQQ_defaults, 1)
    ELSE Resolved(HQQ_defaults, 0)

\* quantize_gguf's quant_methods, each as its method_str
gguf_methods(additional_param) ==
    MapSeq(LAMBDA m : Upper(Strip(m)), Split(RemoveChar(additional_param, " "), ","))

\* the token is skipped whatever use_imatrix is
gguf_skips_always(method_str, use_imatrix) == StartsWith(method_str, "IQ")

\* quantize_gguf skips the token (the "continue" of its loop)
gguf_skips(method_str, use_imatrix) == StartsWith(method_str, "IQ") /\ ~use_imatrix

(***************************************************************************)
(* Paths and the filesystem.  fs is the set of the paths that exist; the   *)
(* existence of a path is all the program ever asks of it.                 *)
(***************************************************************************)
\* os.path.join(a, b)
Join(a, b) == a \o "/" \o b

\* os.path.exists(path)
Exists(files, path) == path \in files

\* the paths of the tree rooted at path, which shutil.rmtree(path) removes
Tree(files, path) == {f \in files : f = path \/ StartsWith(f, path \o "/")}

\* os.makedirs(path, exist_ok=True), for a directory right under an existing root
MakeDirs(files, root, path) == files \cup {root, path}

RECURSIVE UpTo(_, _)
\* s.split(sep)[0]
UpTo(s, sep) == IF s = "" \/ Head(s) = sep THEN "" ELSE Head(s) \o UpTo(Tail(s), sep)

\* os.listdir(dir): the names of the entries right under dir
ListDir(files, dir) ==
    {UpTo(SubSeq(f, Len(dir) + 2, Len(f)), "/") : f \in {g \in files : StartsWith(g, dir \o "/")}}

\* model_id.split("/")[-1]
BaseName(model_id) == LET p == Split(model_id, "/") IN p[Len(p)]

\* os.path.join("models", model_name)
ModelDir(model_id) == Join("models", BaseName(model_id))

\* os.path.join("quantized_models", f"{base_model_name}-{suffix}")
SaveFolder(model_id, suffix) == Join("quantized_models", BaseName(model_id) \o "-" \o suffix)

DEFAULT_IMATRIX_FILE == Join("gguf", "imatrix.dat")
DEFAULT_CALIBRATION_FILE == Join("gguf", "calibration_datav3.txt")

sys_executable == "/usr/bin/python"

(***************************************************************************)
(* Command lines, and the word a shell takes as the program to run.        *)
(***************************************************************************)
RECURSIVE JoinArgs(_)
\* " ".join(str(arg) for arg in args)
JoinArgs(a) ==
    IF Len(a) = 0 THEN ""
    ELSE IF Len(a) = 1 THEN a[1]
    ELSE a[1] \o " " \o JoinArgs(Tail(a))

Quoted(s) == "\"" \o s \o "\""

build_llama_cmd(script_name, a) ==
    IF EndsWith(script_name, ".py")
    THEN Quoted(sys_executable) \o " " \o Quoted(Join("llama_cpp", script_name)) \o " "
            \o JoinArgs(a)
    ELSE Quoted(Join(Join(Join("llama_cpp", "build"), "bin"), script_name)) \o JoinArgs(a)

\* f'"{sys.executable}" "/app/exllamav2/convert.py" -i {model_dir} -o {save_folder} -b {bpw}'
exllamav2_cmd(model_dir, save_folder, bpw_text) ==
    Quoted(sys_executable) \o " " \o Quoted("/app/exllamav2/convert.py") \o " -i " \o model_dir
        \o " -o " \o save_folder \o " -b " \o bpw_text

\* the least index of s whose character is in set, Len(s) + 1 when there is none
Find(s, set) ==
    LET at == {i \in 1..Len(s) : Char(s, i) \in set}
    IN  IF at = {} THEN Len(s) + 1 ELSE CHOOSE i \in at : \A j \in at : i <= j

RECURSIVE ShellWord(_, _)
\* the first word of a command line as /bin/sh reads it: double quotes group and
\* are removed, unquoted white space ends the word
ShellWord(s, inq) ==
    LET p == Find(s, IF inq THEN {"\""} ELSE {"\"", " ", "\t", "\n", "\r"})
    IN  IF p > Len(s) THEN s
        ELSE IF Char(s, p) = "\"" THEN SubSeq(s, 1, p - 1) \o ShellWord(SubSeq(s, p + 1, Len(s)), ~inq)
        ELSE SubSeq(s, 1, p - 1)

FirstWord(command) == ShellWord(LStrip(command), FALSE)

\* the programs that exist on the host
Installed ==
    {sys_executable,
     Join(Join(Join("llama_cpp", "build"), "bin"), "llama-quantize"),
     Join(Join(Join("llama_cpp", "build"), "bin"), "llama-imatrix")}

(***************************************************************************)
(* Transcript lines.  A line keeps the function that produced it, its      *)
(* level and its text (shortened); quant_tavern_ui appends them to         *)
(* full_log in the order they are produced.                                *)
(***************************************************************************)
Line(scope, level, text) == [scope |-> scope, level |-> level, text |-> text]

\* a transcript that loses the lines it is given
Unappended(log, lines) == log

\* a transcript that is rebuilt from the latest lines only
Rewritten(log, lines) == lines

\* full_log += line
Appended(log, lines) == log \o lines

\* snapshot_download's ignore_patterns
Ignored(file) ==
    \E ext \in {".msgpack", ".h5", ".ot", ".onnx"} : EndsWith(file, ext)

(***************************************************************************)
(* The arguments of quant_tavern_ui and what it derives from them.         *)
(***************************************************************************)
\* the lines of the box as they are, blank ones included
model_list_raw(a) == SplitLines(a.model_ids)

\* [m.strip() for m in model_ids.splitlines() if m.strip()]
model_list(a) == SelectSeq(MapSeq(Strip, SplitLines(a.model_ids)), LAMBDA m : m # "")

\* the pairs with GPTQ appended before GGUF
selected_methods_swapped(a) ==
    (IF a.gptq_sel THEN <<<<"GPTQ", a.gptq_param>>>> ELSE <<>>)
    \o (IF a.gguf_sel THEN <<<<"GGUF", a.gguf_param>>>> ELSE <<>>)
    \o (IF a.exllamav2_sel THEN <<<<"ExLlamaV2", a.exllamav2_param>>>> ELSE <<>>)
    \o (IF a.awq_sel THEN <<<<"AWQ", a.awq_param>>>> ELSE <<>>)
    \o (IF a.hqq_sel THEN <<<<"HQQ", a.hqq_param>>>> ELSE <<>>)

\* the (method, param) pairs quant_tavern_ui appends to selected_methods
selected_methods(a) ==
    (IF a.gguf_sel THEN <<<<"GGUF", a.gguf_param>>>> ELSE <<>>)
    \o (IF a.gptq_sel THEN <<<<"GPTQ", a.gptq_param>>>> ELSE <<>>)
    \o (IF a.exllamav2_sel THEN <<<<"ExLlamaV2", a.exllamav2_param>>>> ELSE <<>>)
    \o (IF a.awq_sel THEN <<<<"AWQ", a.awq_param>>>> ELSE <<>>)
    \o (IF a.hqq_sel THEN <<<<"HQQ", a.hqq_param>>>> ELSE <<>>)

\* the model the loop of quant_tavern_ui is at (its loop variable)
model_id == pc.model_id

\* the method the inner loop of quant_tavern_ui is at, and its parameter string
method == pc.selected_methods[pc.si][1]

param == pc.selected_methods[pc.si][2]

\* model_id.split("/")[-1] of the current model, which download_model, the
\* executors and the cleanup each compute again
model_name == pc.model_name

\* os.path.join("models", base_model_name): target_dir, model_dir, local_dir
local_dir == pc.local_dir

(***************************************************************************)
(* Yields and the record of external effects.                              *)
(***************************************************************************)
\* full_log += line(s); yield full_log
Emit(lines) ==
    /\ full_log' = Appended(full_log, lines)
    /\ yielded' = full_log'
    /\ nyields' = nyields + 1

\* code that runs without reaching a yield
Silent == UNCHANGED <<full_log, yielded, nyields>>

\* an external effect: what was done, to what, and how it ended (0: well)
Ev(e, what, code) == [e |-> e, what |-> what, code |-> code]

\* the effects are recorded with the index of the model being processed
RecordAt(events, mi) ==
    hist' = hist \o [i \in 1..Len(events) |->
                        [e |-> events[i].e, what |-> events[i].what,
                         code |-> events[i].code, mi |-> mi]]

Record(events) == RecordAt(events, pc.mi)

Fixed == UNCHANGED <<args, env, raw, res>>

Goto(label) == pc' = [pc EXCEPT !.at = label]

\* a failure of the world outside (a raised call, a non-zero exit), within the bound
Fault == faults < MaxFaults /\ faults' = faults + 1

NoFault == UNCHANGED faults

(***************************************************************************)
(* quant_tavern_ui: the loop over the models, and download_model.          *)
(***************************************************************************)
\* lines 695-699 with download_model's first yield (line 169)
process_model ==
    /\ pc.at = "model_loop"
    /\ pc.mi < Len(pc.model_list)
    /\ LET mi == pc.mi + 1
           id == pc.model_list[mi]
       IN  /\ Emit(<<Line("ui", "BANNER", "Processing model: " \o id),
                     Line("download_model", "BANNER", "Downloading Model")>>)
           /\ pc' = [pc EXCEPT !.at = "download_id", !.mi = mi, !.si = 0, !.model_id = id,
                                !.model_name = BaseName(id), !.local_dir = ModelDir(id)]
           /\ RecordAt(<<Ev("download_model", id, 0)>>, mi)
    /\ NoFault /\ Fixed /\ UNCHANGED fs

\* line 170
download_model_id ==
    /\ pc.at = "download_id"
    /\ Emit(<<Line("download_model", "INFO", "Model ID: " \o model_id)>>)
    /\ Goto("download_target")
    /\ NoFault /\ Fixed /\ UNCHANGED <<fs, hist>>

\* line 171
download_model_target ==
    /\ pc.at = "download_target"
    /\ Emit(<<Line("download_model", "INFO", "Target directory: " \o local_dir)>>)
    /\ Goto("download_check")
    /\ NoFault /\ Fixed /\ UNCHANGED <<fs, hist>>

\* an oracle that is content with one file of the listing
is_model_fully_downloaded_any(files, listed, target_dir) ==
    IF listed.raised THEN FALSE
    ELSE \E file \in listed.files : Exists(files, Join(target_dir, file))

\* an oracle that looks for the files of the listing outside target_dir
is_model_fully_downloaded_elsewhere(files, listed, target_dir) ==
    IF listed.raised THEN FALSE
    ELSE \A file \in listed.files : Exists(files, file)

\* is_model_fully_downloaded, on the answer of api.list_repo_files
\* (listed.raised when the call raised)
is_model_fully_downloaded(files, listed, target_dir) ==
    IF listed.raised THEN FALSE
    ELSE \A file \in listed.files : Exists(files, Join(target_dir, file))

\* the end of download_model: control is back in quant_tavern_ui at line 701
\* (lines 701-712 build selected_methods before anything else happens)
DownloadReturns ==
    pc' = [pc EXCEPT !.at = "method_loop", !.si = 0,
                     !.selected_methods = selected_methods(args)]

\* lines 173-180
download_model_check ==
    /\ pc.at = "download_check"
    /\ LET target_dir == local_dir
           call == Ev("list_repo_files", model_id, 0)
       IN  \/ /\ ~Exists(fs, target_dir)
              /\ Emit(<<Line("download_model", "INFO", "Model directory does not exist")>>)
              /\ Goto("download_start")
              /\ NoFault /\ UNCHANGED hist
           \/ /\ Exists(fs, target_dir)
              /\ is_model_fully_downloaded(fs, [raised |-> FALSE, files |-> env.listing],
                                           target_dir)
              /\ Emit(<<Line("download_model", "INFO", "already fully downloaded")>>)
              /\ DownloadReturns
              /\ NoFault /\ Record(<<call, Ev("download_done", model_id, 0)>>)
           \/ /\ Exists(fs, target_dir)
              /\ ~is_model_fully_downloaded(fs, [raised |-> FALSE, files |-> env.listing],
                                            target_dir)
              /\ Emit(<<Line("download_model", "WARN", "files appear incomplete")>>)
              /\ Goto("download_start")
              /\ NoFault /\ Record(<<call>>)
           \/ /\ Exists(fs, target_dir)
              /\ Fault
              /\ ~is_model_fully_downloaded(fs, [raised |-> TRUE, files |-> {}], target_dir)
              /\ Emit(<<Line("download_model", "WARN", "files appear incomplete")>>)
              /\ Goto("download_start")
              /\ Record(<<Ev("list_repo_files", model_id, 1)>>)
    /\ Fixed /\ UNCHANGED fs

\* line 183
download_model_start ==
    /\ pc.at = "download_start"
    /\ Emit(<<Line("download_model", "INFO", "Downloading model " \o model_id)>>)
    /\ Goto("download_snapshot")
    /\ NoFault /\ Fixed /\ UNCHANGED <<fs, hist>>

\* what snapshot_download leaves in local_dir: the listing without the ignored patterns
Snapshot(files, listing, target_dir) ==
    files \cup {"models", target_dir}
          \cup {Join(target_dir, f) : f \in {g \in listing : ~Ignored(g)}}

\* lines 184-194
download_model_snapshot ==
    /\ pc.at = "download_snapshot"
    /\ LET target_dir == local_dir
       IN  \/ /\ fs' = Snapshot(fs, env.listing, target_dir)
              /\ Emit(<<Line("download_model", "INFO", "Model downloaded and patched")>>)
              /\ Record(<<Ev("snapshot_download", model_id, 0), Ev("download_done", model_id, 0)>>)
              /\ NoFault
           \/ /\ Fault
              /\ fs' \in {fs, fs \cup {"models", target_dir}}
              /\ Emit(<<Line("download_model", "ERROR", "Error downloading model")>>)
              /\ Record(<<Ev("snapshot_download", model_id, 1), Ev("download_done", model_id, 1)>>)
    /\ DownloadReturns
    /\ Fixed

(***************************************************************************)
(* quant_tavern_ui: the loop over the selected methods.                    *)
(***************************************************************************)
\* the executor quant_tavern_ui dispatches a method name to (lines 722-746)
Executor(name) ==
    CASE name = "GGUF" -> "gguf"
      [] name = "GPTQ" -> "gptq"
      [] name = "ExLlamaV2" -> "exllamav2"
      [] name = "AWQ" -> "awq"
      [] name = "HQQ" -> "hqq"

\* an empty selection that is reported twice
no_method_selected_twice ==
    /\ pc.at = "method_loop"
    /\ pc.selected_methods = <<>>
    /\ Emit(<<Line("ui", "ERROR", "No quantization method selected for model"),
              Line("ui", "ERROR", "No quantization method selected for model")>>)
    /\ Goto("model_loop")
    /\ NoFault /\ Fixed /\ UNCHANGED <<fs, hist>>

\* lines 714-717
no_method_selected ==
    /\ pc.at = "method_loop"
    /\ pc.selected_methods = <<>>
    /\ Emit(<<Line("ui", "ERROR", "No quantization method selected for model")>>)
    /\ Goto("model_loop")
    /\ NoFault /\ Fixed /\ UNCHANGED <<fs, hist>>

\* lines 719-721: the next selected method is announced, its executor is created
run_method ==
    /\ pc.at = "method_loop"
    /\ pc.si < Len(pc.selected_methods)
    /\ LET name == pc.selected_methods[pc.si + 1][1]
       IN  /\ Emit(<<Line("ui", "INFO", "Running " \o name \o " quantization...")>>)
           /\ pc' = [pc EXCEPT !.at = Executor(name), !.si = pc.si + 1, !.ti = 0, !.k = 0]
    /\ NoFault /\ Fixed /\ UNCHANGED <<fs, hist>>

\* the executor's generator is exhausted: control is back at line 719
ExecutorReturns == pc' = [pc EXCEPT !.at = "method_loop"]

\* an exception leaves the executor and, nothing catching it, quant_tavern_ui
ExecutorRaises == pc' = [pc EXCEPT !.at = "raised"]

(***************************************************************************)
(* run_command: the process runner.                                        *)
(***************************************************************************)
\* for line in run_command(cmd): the caller starts to drain a new generator.  needs
\* are the paths the tool reads, effect the paths it writes when it succeeds
RunCommand(cmd, needs, effect, ret) ==
    pc' = [pc EXCEPT !.at = "run_command", !.cmd = cmd, !.needs = needs,
                     !.effect = effect, !.ret = ret]

\* line 93
run_command_debug ==
    /\ pc.at = "run_command"
    /\ Emit(<<Line("run_command", "DEBUG", "Executing command: " \o pc.cmd)>>)
    /\ Goto("run_command_popen")
    /\ NoFault /\ Fixed /\ UNCHANGED <<fs, hist>>

\* a runner that starts the child and does not wait for it
run_command_popen_detached ==
    /\ pc.at = "run_command_popen"
    /\ Goto(pc.ret)
    /\ Record(<<Ev("Popen", pc.cmd, 0)>>)
    /\ NoFault /\ Silent /\ Fixed /\ UNCHANGED fs

\* lines 94-96: the shell starts; what the child will print and return is the
\* child's business: a program the shell does not find prints one line and
\* returns 127, a tool that lacks an input prints one line and returns 1
run_command_popen ==
    /\ pc.at = "run_command_popen"
    /\ \/ /\ FirstWord(pc.cmd) \notin Installed
          /\ pc' = [pc EXCEPT !.at = "run_command_read", !.out = 1, !.code = 127]
          /\ NoFault
       \/ /\ FirstWord(pc.cmd) \in Installed
          /\ ~(pc.needs \subseteq fs)
          /\ pc' = [pc EXCEPT !.at = "run_command_read", !.out = 1, !.code = 1]
          /\ NoFault
       \/ /\ FirstWord(pc.cmd) \in Installed
          /\ pc.needs \subseteq fs
          /\ pc' = [pc EXCEPT !.at = "run_command_read", !.out = env.proc_lines, !.code = 0]
          /\ NoFault
       \/ /\ FirstWord(pc.cmd) \in Installed
          /\ pc.needs \subseteq fs
          /\ Fault
          /\ pc' = [pc EXCEPT !.at = "run_command_read", !.out = env.proc_lines, !.code = 1]
    /\ Record(<<Ev("Popen", pc.cmd, 0)>>)
    /\ Silent /\ Fixed /\ UNCHANGED fs

\* lines 97-100: one more line of the child's output
run_command_line ==
    /\ pc.at = "run_command_read"
    /\ pc.out > 0
    /\ Emit(<<Line("run_command", "OUT", "output of the child")>>)
    /\ pc' = [pc EXCEPT !.out = pc.out - 1]
    /\ NoFault /\ Fixed /\ UNCHANGED <<fs, hist>>

\* a runner whose caller gives up when the child fails
run_command_exit_stopping ==
    /\ pc.at = "run_command_read"
    /\ pc.out = 0
    /\ \/ /\ pc.code = 0
          /\ fs' = fs \cup pc.effect
          /\ Silent
          /\ Goto(pc.ret)
       \/ /\ pc.code # 0
          /\ Emit(<<Line("run_command", "ERROR",
                         "Command returned non-zero exit code: " \o NatText(pc.code))>>)
          /\ UNCHANGED fs
          /\ Goto("method_loop")
    /\ Record(<<Ev("exit", pc.cmd, pc.code)>>)
    /\ NoFault /\ Fixed

\* a runner that ends without a word whatever the exit code
run_command_exit_quiet ==
    /\ pc.at = "run_command_read"
    /\ pc.out = 0
    /\ fs' = IF pc.code = 0 THEN fs \cup pc.effect ELSE fs
    /\ Silent
    /\ Goto(pc.ret)
    /\ Record(<<Ev("exit", pc.cmd, pc.code)>>)
    /\ NoFault /\ Fixed

\* lines 101-107: the child has exited and its output is drained
run_command_exit ==
    /\ pc.at = "run_command_read"
    /\ pc.out = 0
    /\ \/ /\ pc.code = 0
          /\ fs' = fs \cup pc.effect
          /\ Silent
       \/ /\ pc.code # 0
          /\ Emit(<<Line("run_command", "ERROR",
                         "Command returned non-zero exit code: " \o NatText(pc.code))>>)
          /\ UNCHANGED fs
    /\ Goto(pc.ret)
    /\ Record(<<Ev("exit", pc.cmd, pc.code)>>)
    /\ NoFault /\ Fixed

(***************************************************************************)
(* upload_quant: the publisher.                                            *)
(***************************************************************************)
\* a formatter that upper-cases the whole token, prefix included
format_quant_type_upper(qtype) == Upper(qtype)

format_quant_type(qtype) ==
    IF StartsWith(Lower(qtype), "i1-")
    THEN "i1-" \o Upper(SubSeq(qtype, 4, Len(qtype)))
    ELSE Upper(qtype)

\* line 411
repo_id(username, base_model_name, quantization_type) ==
    username \o "/" \o base_model_name \o "-" \o format_quant_type(quantization_type)

\* a publisher that gives up when the model card cannot be written
upload_quant_abandoning(files, id, base_model_name, quantization_type, save_folder, username, card_raises, push_raises) ==
    LET repo == repo_id(username, base_model_name, quantization_type)
        uploaded == push_raises = ""
    IN  IF card_raises
        THEN [log |-> <<Line("upload_quant", "INFO", "Preparing to upload to repo: " \o repo),
                        Line("upload_quant", "ERROR", "Error creating custom model card")>>,
              files |-> files, calls |-> <<>>]
        ELSE [log |-> <<Line("upload_quant", "INFO", "Preparing to upload to repo: " \o repo),
                        Line("upload_quant", "INFO", "Created custom model card")>>
                      \o (IF push_raises # "create_repo"
                          THEN <<Line("upload_quant", "INFO", "Repo is ready. Uploading folder")>>
                          ELSE <<>>)
                      \o (IF uploaded
                          THEN <<Line("upload_quant", "INFO", "Uploaded quantized model to " \o repo)>>
                          ELSE <<Line("upload_quant", "ERROR", "Error uploading model")>>),
              files |-> files \cup {Join(save_folder, "README.md")},
              calls |-> <<Ev("create_repo", repo, IF push_raises # "create_repo" THEN 0 ELSE 1)>>
                        \o (IF push_raises # "create_repo"
                            THEN <<Ev("upload_folder", save_folder, IF uploaded THEN 0 ELSE 1)>>
                            ELSE <<>>)]

\* upload_quant's log, its writes and its calls.  card_raises: writing the model
\* card raises; push_raises: "create_repo", "upload_folder" or "" (neither raises)
upload_quant(files, id, base_model_name, quantization_type, save_folder, username, card_raises, push_raises) ==
    LET repo == repo_id(username, base_model_name, quantization_type)
        card_ok == ~card_raises
        created == push_raises # "create_repo"
        uploaded == created /\ push_raises # "upload_folder"
    IN  [log |-> <<Line("upload_quant", "INFO", "Preparing to upload to repo: " \o repo)>>
                 \o (IF card_ok
                     THEN <<Line("upload_quant", "INFO", "Created custom model card")>>
                     ELSE <<Line("upload_quant", "ERROR", "Error creating custom model card")>>)
                 \o (IF created
                     THEN <<Line("upload_quant", "INFO", "Repo is ready. Uploading folder")>>
                     ELSE <<>>)
                 \o (IF uploaded
                     THEN <<Line("upload_quant", "INFO", "Uploaded quantized model to " \o repo)>>
                     ELSE <<Line("upload_quant", "ERROR", "Error uploading model")>>),
         files |-> IF card_ok THEN files \cup {Join(save_folder, "README.md")} ELSE files,
         calls |-> <<Ev("create_repo", repo, IF created THEN 0 ELSE 1)>>
                   \o (IF created
                       THEN <<Ev("upload_folder", save_folder, IF uploaded THEN 0 ELSE 1)>>
                       ELSE <<>>)]

\* for line in upload_quant(...): the caller is about to call the publisher
UploadQuant(quantization_type, save_folder) ==
    pc' = [pc EXCEPT !.at = "upload_quant", !.qtype = quantization_type,
                     !.save_folder = save_folder]

\* lines 410-437, then the first piece of the returned log.  Writing the card
\* into a folder that does not exist raises, and so does uploading one
upload_quant_call ==
    /\ pc.at = "upload_quant"
    /\ \E card_fault \in BOOLEAN, push_fault \in {"", "create_repo", "upload_folder"} :
          LET n == (IF card_fault THEN 1 ELSE 0) + (IF push_fault # "" THEN 1 ELSE 0)
              missing == ~Exists(fs, pc.save_folder)
              r == upload_quant(fs, model_id, model_name, pc.qtype, pc.save_folder,
                                args.username, card_fault \/ missing,
                                IF push_fault = "" /\ missing THEN "upload_folder"
                                ELSE push_fault)
          IN  /\ faults + n <= MaxFaults
              /\ ~(missing /\ card_fault)
              /\ ~(missing /\ push_fault = "upload_folder")
              /\ faults' = faults + n
              /\ fs' = r.files
              /\ Record(r.calls)
              /\ Emit(<<Head(r.log)>>)
              /\ pc' = [pc EXCEPT !.at = "upload_quant_iter", !.pending = Tail(r.log)]
    /\ Fixed

\* the rest of the returned log, piece by piece; after the last piece the
\* executor that called the publisher ends.  (The code iterates the returned
\* string, so a piece is a character; a line stands for its characters here.)
upload_quant_iter ==
    /\ pc.at = "upload_quant_iter"
    /\ Emit(<<Head(pc.pending)>>)
    /\ IF Len(pc.pending) = 1
       THEN /\ pc' = [pc EXCEPT !.at = "method_loop", !.pending = <<>>]
            /\ Record(<<Ev("end", method, 0)>>)
       ELSE /\ pc' = [pc EXCEPT !.pending = Tail(pc.pending)]
            /\ UNCHANGED hist
    /\ NoFault /\ Fixed /\ UNCHANGED fs

(***************************************************************************)
(* quantize_gguf and compute_imatrix_file.                                 *)
(***************************************************************************)
\* model_id.split("/")[-1].strip()
gguf_base_model_name(id) == Strip(BaseName(id))

gguf_save_folder(id) == Join("quantized_models", gguf_base_model_name(id) \o "-GGUF")

\* the base-precision conversion (line 462)
gguf_out_file(id) ==
    Join(gguf_save_folder(id), Lower(gguf_base_model_name(id)) \o ".bf16.gguf")

\* an output file that keeps the capitals of the model's name
gguf_qtype_cased(id, method_str, use_imatrix) ==
    Join(gguf_save_folder(id),
         gguf_base_model_name(id) \o (IF use_imatrix THEN "-i1-" ELSE "-")
            \o method_str \o ".gguf")

\* the output file of one quant type (lines 496 and 499)
gguf_qtype(id, method_str, use_imatrix) ==
    Join(gguf_save_folder(id),
         Lower(gguf_base_model_name(id)) \o (IF use_imatrix THEN "-i1-" ELSE "-")
            \o method_str \o ".gguf")

\* a command line that never names the matrix
gguf_quantize_cmd_plain(out_file, qtype, method_str, use_imatrix, imatrix_file) ==
    build_llama_cmd("llama-quantize", <<out_file, qtype, method_str>>)

\* lines 497 and 500
gguf_quantize_cmd(out_file, qtype, method_str, use_imatrix, imatrix_file) ==
    IF use_imatrix
    THEN build_llama_cmd("llama-quantize", <<"--imatrix", imatrix_file, out_file, qtype, method_str>>)
    ELSE build_llama_cmd("llama-quantize", <<out_file, qtype, method_str>>)

\* [s.strip() for s in imatrix_in_files.split(",") if s.strip()] if ... else []
in_files_list(imatrix_in_files) ==
    IF Strip(imatrix_in_files) # ""
    THEN SelectSeq(MapSeq(Strip, Split(imatrix_in_files, ",")), LAMBDA f : f # "")
    ELSE <<>>

RECURSIVE InFileArgs(_)
InFileArgs(in_files) ==
    IF in_files = <<>> THEN <<>>
    ELSE <<"--in-file", Head(in_files)>> \o InFileArgs(Tail(in_files))

\* lines 121-139; the numeric knobs are those of the form (lines 809-817)
compute_imatrix_cmd(a, model_file) ==
    build_llama_cmd("llama-imatrix",
        <<"-m", model_file, "-f", a.calibration_file, "-o", a.imatrix_file,
          "--chunk", "64", "-ngl", "80", "--output-frequency", "10",
          "--save-frequency", "0", "--verbosity", "1">>
        \o (IF a.imatrix_process_output THEN <<"--process-output">> ELSE <<>>)
        \o (IF a.imatrix_no_ppl THEN <<"--no-ppl">> ELSE <<>>)
        \o InFileArgs(in_files_list(a.imatrix_in_files)))

\* lines 458-463
quantize_gguf_banner ==
    /\ pc.at = "gguf"
    /\ fs' = MakeDirs(fs, "quantized_models", gguf_save_folder(model_id))
    /\ Emit(<<Line("GGUF", "BANNER", "GGUF Quantization for " \o gguf_base_model_name(model_id))>>)
    /\ pc' = [pc EXCEPT !.at = "gguf_expected", !.save_folder = gguf_save_folder(model_id),
                         !.out_file = gguf_out_file(model_id)]
    /\ Record(<<Ev("start", "GGUF", 0)>>)
    /\ NoFault /\ Fixed

\* line 464
quantize_gguf_expected ==
    /\ pc.at = "gguf_expected"
    /\ Emit(<<Line("GGUF", "INFO", "Expected output file: " \o pc.out_file)>>)
    /\ Goto("gguf_convert")
    /\ NoFault /\ Fixed /\ UNCHANGED <<fs, hist>>

\* lines 466-472
quantize_gguf_convert ==
    /\ pc.at = "gguf_convert"
    /\ \/ /\ ~Exists(fs, pc.out_file)
          /\ Emit(<<Line("GGUF", "INFO", "Running conversion command")>>)
          /\ RunCommand(build_llama_cmd("convert_hf_to_gguf.py",
                                        <<local_dir, "--outtype", "bf16",
                                          "--outfile", pc.out_file>>),
                        {local_dir}, {pc.out_file}, "gguf_imatrix")
       \/ /\ Exists(fs, pc.out_file)
          /\ Emit(<<Line("GGUF", "INFO", "File already exists. Skipping conversion.")>>)
          /\ Goto("gguf_imatrix")
    /\ NoFault /\ Fixed /\ UNCHANGED <<fs, hist>>

\* a run that computes the importance matrix whenever it is enabled
quantize_gguf_imatrix_always ==
    /\ pc.at = "gguf_imatrix"
    /\ \/ /\ args.enable_imatrix
          /\ Emit(<<Line("compute_imatrix_file", "INFO", "Computing imatrix file")>>)
          /\ Goto("imatrix_cmd")
       \/ /\ ~args.enable_imatrix
          /\ Silent
          /\ Goto("gguf_quant")
    /\ NoFault /\ Fixed /\ UNCHANGED <<fs, hist>>

\* lines 474-487, with compute_imatrix_file's first yield (line 120)
quantize_gguf_imatrix ==
    /\ pc.at = "gguf_imatrix"
    /\ \/ /\ args.enable_imatrix
          /\ args.recompute_imatrix \/ ~Exists(fs, args.imatrix_file)
          /\ Emit(<<Line("compute_imatrix_file", "INFO", "Computing imatrix file")>>)
          /\ Goto("imatrix_cmd")
       \/ /\ ~(args.enable_imatrix
               /\ (args.recompute_imatrix \/ ~Exists(fs, args.imatrix_file)))
          /\ Silent
          /\ Goto("gguf_quant")
    /\ NoFault /\ Fixed /\ UNCHANGED <<fs, hist>>

\* lines 121-142
compute_imatrix_file ==
    /\ pc.at = "imatrix_cmd"
    /\ Emit(<<Line("compute_imatrix_file", "INFO", "Running imatrix command")>>)
    /\ RunCommand(compute_imatrix_cmd(args, pc.out_file),
                  {pc.out_file, args.calibration_file}, {args.imatrix_file},
                  "gguf_quant")
    /\ NoFault /\ Fixed /\ UNCHANGED <<fs, hist>>

\* lines 490-503: the next quant type of the list
quantize_gguf_method ==
    /\ pc.at = "gguf_quant"
    /\ pc.ti < Len(gguf_methods(param))
    /\ LET method_str == gguf_methods(param)[pc.ti + 1]
           use_imatrix == args.enable_imatrix
       IN  \/ /\ gguf_skips(method_str, use_imatrix)
              /\ Emit(<<Line("GGUF", "WARN", "Skipping " \o method_str)>>)
              /\ pc' = [pc EXCEPT !.ti = pc.ti + 1]
           \/ /\ ~gguf_skips(method_str, use_imatrix)
              /\ Emit(<<Line("GGUF", "INFO", "Quantizing with method " \o method_str)>>)
              /\ pc' = [pc EXCEPT !.ti = pc.ti + 1, !.at = "run_command",
                          !.cmd = gguf_quantize_cmd(pc.out_file,
                                        gguf_qtype(model_id, method_str, use_imatrix),
                                        method_str, use_imatrix, args.imatrix_file),
                          !.needs = {pc.out_file}
                                    \cup (IF use_imatrix THEN {args.imatrix_file} ELSE {}),
                          !.effect = {gguf_qtype(model_id, method_str, use_imatrix)},
                          !.ret = "gguf_quant"]
    /\ NoFault /\ Fixed /\ UNCHANGED <<fs, hist>>

\* lines 505-508, up to the call of the publisher
quantize_gguf_upload ==
    /\ pc.at = "gguf_quant"
    /\ pc.ti = Len(gguf_methods(param))
    /\ Emit(<<Line("GGUF", "INFO", "Uploading GGUF quantized model...")>>)
    /\ UploadQuant(IF args.enable_imatrix THEN "i1-GGUF" ELSE "GGUF", pc.save_folder)
    /\ NoFault /\ Fixed /\ UNCHANGED <<fs, hist>>

(***************************************************************************)
(* quantize_gptq.  Its library calls run between its yields; the model     *)
(* lets the calls that read or write the disk fail.                        *)
(***************************************************************************)
\* what quantize_gptq does between two of its yields after line 533: the call
\* it makes first (or none) and the line it yields then (lines 535-568)
GPTQ_steps ==
    <<[call |-> "", line |-> Line("GPTQ", "INFO", "Loading tokenizer")],
      [call |-> "AutoTokenizer.from_pretrained",
       line |-> Line("GPTQ", "INFO", "Loading patched configuration")],
      [call |-> "AutoConfig.from_pretrained",
       line |-> Line("GPTQ", "DEBUG", "Patched config rope_scaling")],
      [call |-> "", line |-> Line("GPTQ", "INFO", "Initializing GPTQ configuration")],
      [call |-> "GPTQConfig", line |-> Line("GPTQ", "INFO", "Loading model")],
      [call |-> "AutoModelForCausalLM.from_pretrained",
       line |-> Line("GPTQ", "DEBUG", "Loaded model config rope_scaling")],
      [call |-> "", line |-> Line("GPTQ", "DEBUG", "After override")],
      [call |-> "", line |-> Line("GPTQ", "INFO", "Saving quantized model")],
      [call |-> "save_pretrained", line |-> Line("GPTQ", "INFO", "GPTQ quantization completed.")]>>

\* the calls that load the local copy of the model raise when it is not there
NeedsLocalCopy ==
    {"AutoTokenizer.from_pretrained", "AutoConfig.from_pretrained",
     "AutoModelForCausalLM.from_pretrained", "AutoAWQForCausalLM.from_pretrained"}

\* the calls the model lets fail for a reason of their own
MayFail ==
    {"AutoTokenizer.from_pretrained", "AutoModelForCausalLM.from_pretrained",
     "save_pretrained", "AutoAWQForCausalLM.from_pretrained", "quantize",
     "HQQModelForCausalLM.from_pretrained", "quantize_model", "save_quantized"}

\* lines 512-519
quantize_gptq_import ==
    /\ pc.at = "gptq"
    /\ \/ /\ "transformers" \in env.missing
          /\ Emit(<<Line("GPTQ", "ERROR", "GPTQ requires the 'transformers' package")>>)
          /\ ExecutorReturns
          /\ Record(<<Ev("start", "GPTQ", 0), Ev("import", "GPTQ", 1), Ev("end", "GPTQ", 0)>>)
       \/ /\ "transformers" \notin env.missing
          /\ Emit(<<Line("GPTQ", "BANNER", "GPTQ Quantization")>>)
          /\ Goto("gptq_params")
          /\ Record(<<Ev("start", "GPTQ", 0)>>)
    /\ NoFault /\ Fixed /\ UNCHANGED fs

\* lines 520-533: int() or float() may raise, and nothing here catches it
quantize_gptq_params ==
    /\ pc.at = "gptq_params"
    /\ LET r == gptq_params(param)
       IN  \/ /\ r.raised
              /\ Silent
              /\ ExecutorRaises
              /\ Record(<<Ev("raise", "GPTQ", 0)>>)
           \/ /\ ~r.raised /\ r.warns = 1
              /\ Emit(<<Line("GPTQ", "WARN", "Insufficient GPTQ parameters provided")>>)
              /\ pc' = [pc EXCEPT !.at = "gptq_using", !.params = r.params]
              /\ UNCHANGED hist
           \/ /\ ~r.raised /\ r.warns = 0
              /\ Emit(<<Line("GPTQ", "INFO", "Using GPTQ parameters")>>)
              /\ pc' = [pc EXCEPT !.at = "gptq_steps", !.params = r.params, !.k = 0]
              /\ UNCHANGED hist
    /\ NoFault /\ Fixed /\ UNCHANGED fs

\* line 533, after the warning of line 529
quantize_gptq_using ==
    /\ pc.at = "gptq_using"
    /\ Emit(<<Line("GPTQ", "INFO", "Using GPTQ parameters")>>)
    /\ pc' = [pc EXCEPT !.at = "gptq_steps", !.k = 0]
    /\ NoFault /\ Fixed /\ UNCHANGED <<fs, hist>>

\* lines 535-568, one yield at a time; an exception of a call escapes
quantize_gptq_step ==
    /\ pc.at = "gptq_steps"
    /\ pc.k < Len(GPTQ_steps)
    /\ LET step == GPTQ_steps[pc.k + 1]
           save_folder == SaveFolder(model_id, "GPTQ")
           absent == step.call \in NeedsLocalCopy /\ ~Exists(fs, local_dir)
       IN  \/ /\ absent
              /\ Silent /\ NoFault
              /\ ExecutorRaises
              /\ Record(<<Ev(step.call, local_dir, 1), Ev("raise", "GPTQ", 0)>>)
              /\ UNCHANGED fs
           \/ /\ ~absent
              /\ step.call \in MayFail
              /\ Fault
              /\ Silent
              /\ ExecutorRaises
              /\ Record(<<Ev(step.call, local_dir, 1), Ev("raise", "GPTQ", 0)>>)
              /\ UNCHANGED fs
           \/ /\ ~absent
              /\ NoFault
              /\ Emit(<<step.line>>)
              /\ fs' = IF step.call = "save_pretrained"
                       THEN MakeDirs(fs, "quantized_models", save_folder)
                                \cup {Join(save_folder, "model.safetensors")}
                       ELSE fs
              /\ IF pc.k + 1 = Len(GPTQ_steps)
                 THEN UploadQuant("GPTQ", save_folder)
                 ELSE pc' = [pc EXCEPT !.k = pc.k + 1]
              /\ UNCHANGED hist
    /\ Fixed

(***************************************************************************)
(* quantize_exllamav2.                                                     *)
(***************************************************************************)
RECURSIVE Pow10(_)
Pow10(k) == IF k = 0 THEN 1 ELSE 10 * Pow10(k - 1)

RECURSIVE ZeroPad(_, _)
ZeroPad(t, width) == IF Len(t) >= width THEN t ELSE ZeroPad("0" \o t, width)

\* f"{bpw}" for a float of the model's range: 4.5, 4.0, 0.25
FloatText(f) ==
    LET m == IF f[1] < 0 THEN -f[1] ELSE f[1]
        sign == IF f[1] < 0 THEN "-" ELSE ""
    IN  IF f[2] = 0 THEN sign \o NatText(m) \o ".0"
        ELSE sign \o NatText(m \div Pow10(f[2])) \o "." \o ZeroPad(NatText(m % Pow10(f[2])), f[2])

\* line 574
quantize_exllamav2_banner ==
    /\ pc.at = "exllamav2"
    /\ Emit(<<Line("ExLlamaV2", "BANNER", "ExLlamaV2 Quantization")>>)
    /\ Goto("exllamav2_cmd")
    /\ Record(<<Ev("start", "ExLlamaV2", 0)>>)
    /\ NoFault /\ Fixed /\ UNCHANGED fs

\* lines 575-580, and line 587 when float() raises
quantize_exllamav2_command ==
    /\ pc.at = "exllamav2_cmd"
    /\ LET r == exllamav2_params(param)
           model_dir == local_dir
           save_folder == SaveFolder(model_id, "EXL2")
       IN  \/ /\ r.raised
              /\ Emit(<<Line("ExLlamaV2", "ERROR", "Error during ExLlamaV2 quantization")>>)
              /\ ExecutorReturns
              /\ Record(<<Ev("end", "ExLlamaV2", 0)>>)
           \/ /\ ~r.raised
              /\ Emit(<<Line("ExLlamaV2", "INFO", "Running ExLlamaV2 command")>>)
              /\ pc' = [pc EXCEPT !.at = "run_command", !.params = r.params,
                          !.cmd = exllamav2_cmd(model_dir, save_folder, FloatText(r.params[1])),
                          !.needs = {model_dir},
                          !.effect = {"quantized_models", save_folder,
                                      Join(save_folder, "output.safetensors")},
                          !.ret = "exllamav2_done"]
              /\ UNCHANGED hist
    /\ NoFault /\ Fixed /\ UNCHANGED fs

\* lines 583-585, up to the call of the publisher
quantize_exllamav2_completed ==
    /\ pc.at = "exllamav2_done"
    /\ Emit(<<Line("ExLlamaV2", "INFO", "ExLlamaV2 quantization completed.")>>)
    /\ UploadQuant("exl2", SaveFolder(model_id, "EXL2"))
    /\ NoFault /\ Fixed /\ UNCHANGED <<fs, hist>>

(***************************************************************************)
(* quantize_awq and quantize_hqq: the whole body is inside try/except, an  *)
(* exception becomes the executor's last line.                             *)
(***************************************************************************)
\* except Exception as e: yield "[ERROR] Error during ... quantization"; the executor ends
Caught(name, call) ==
    /\ Emit(<<Line(name, "ERROR", "Error during " \o name \o " quantization")>>)
    /\ ExecutorReturns
    /\ Record(<<Ev(call, name, 1), Ev("end", name, 0)>>)

\* line 591
quantize_awq_banner ==
    /\ pc.at = "awq"
    /\ Emit(<<Line("AWQ", "BANNER", "AWQ Quantization")>>)
    /\ Goto("awq_params")
    /\ Record(<<Ev("start", "AWQ", 0)>>)
    /\ NoFault /\ Fixed /\ UNCHANGED fs

\* lines 592-606
quantize_awq_params ==
    /\ pc.at = "awq_params"
    /\ LET r == awq_params(param)
       IN  \/ /\ r.raised
              /\ Caught("AWQ", "int")
           \/ /\ ~r.raised /\ r.warns = 1
              /\ Emit(<<Line("AWQ", "WARN", "Insufficient AWQ parameters provided")>>)
              /\ pc' = [pc EXCEPT !.at = "awq_using", !.params = r.params]
              /\ UNCHANGED hist
           \/ /\ ~r.raised /\ r.warns = 0
              /\ Emit(<<Line("AWQ", "INFO", "Using AWQ parameters")>>)
              /\ pc' = [pc EXCEPT !.at = "awq_import", !.params = r.params]
              /\ UNCHANGED hist
    /\ NoFault /\ Fixed /\ UNCHANGED fs

\* line 606, after the warning of line 602
quantize_awq_using ==
    /\ pc.at = "awq_using"
    /\ Emit(<<Line("AWQ", "INFO", "Using AWQ parameters")>>)
    /\ Goto("awq_import")
    /\ NoFault /\ Fixed /\ UNCHANGED <<fs, hist>>

\* lines 607-620
quantize_awq_import ==
    /\ pc.at = "awq_import"
    /\ \/ /\ {"awq", "transformers"} \cap env.missing # {}
          /\ Caught("AWQ", "import")
       \/ /\ {"awq", "transformers"} \cap env.missing = {}
          /\ Emit(<<Line("AWQ", "INFO", "Loading model and tokenizer for AWQ")>>)
          /\ Goto("awq_config")
          /\ UNCHANGED hist
    /\ NoFault /\ Fixed /\ UNCHANGED fs

\* lines 621-625
quantize_awq_config ==
    /\ pc.at = "awq_config"
    /\ \/ /\ ~Exists(fs, local_dir)
          /\ Caught("AWQ", "AutoConfig.from_pretrained")
       \/ /\ Exists(fs, local_dir)
          /\ env.rope_scaling
          /\ Emit(<<Line("AWQ", "DEBUG", "Overridden config rope_scaling")>>)
          /\ Goto("awq_load")
          /\ UNCHANGED hist
       \/ /\ Exists(fs, local_dir)
          /\ ~env.rope_scaling
          /\ Silent
          /\ Goto("awq_load")
          /\ UNCHANGED hist
    /\ NoFault /\ Fixed /\ UNCHANGED fs

\* lines 626-629
quantize_awq_load ==
    /\ pc.at = "awq_load"
    /\ \/ /\ Fault
          /\ Caught("AWQ", "AutoAWQForCausalLM.from_pretrained")
       \/ /\ NoFault
          /\ Emit(<<Line("AWQ", "INFO", "Quantizing model using AWQ...")>>)
          /\ Goto("awq_quantize")
          /\ UNCHANGED hist
    /\ Fixed /\ UNCHANGED fs

\* lines 630-635, up to the call of the publisher
quantize_awq_quantize ==
    /\ pc.at = "awq_quantize"
    /\ LET save_folder == SaveFolder(model_id, "AWQ")
       IN  \/ /\ Fault
              /\ Caught("AWQ", "quantize")
              /\ UNCHANGED fs
           \/ /\ NoFault
              /\ fs' = MakeDirs(fs, "quantized_models", save_folder)
                          \cup {Join(save_folder, "model.safetensors")}
              /\ Emit(<<Line("AWQ", "INFO", "AWQ quantization completed.")>>)
              /\ UploadQuant("AWQ", save_folder)
              /\ UNCHANGED hist
    /\ Fixed

\* line 641
quantize_hqq_banner ==
    /\ pc.at = "hqq"
    /\ Emit(<<Line("HQQ", "BANNER", "HQQ Quantization")>>)
    /\ Goto("hqq_params")
    /\ Record(<<Ev("start", "HQQ", 0)>>)
    /\ NoFault /\ Fixed /\ UNCHANGED fs

\* lines 642-654
quantize_hqq_params ==
    /\ pc.at = "hqq_params"
    /\ LET r == hqq_params(param)
       IN  \/ /\ r.raised
              /\ Caught("HQQ", "int")
           \/ /\ ~r.raised /\ r.warns = 1
              /\ Emit(<<Line("HQQ", "WARN", "Insufficient HQQ parameters provided")>>)
              /\ pc' = [pc EXCEPT !.at = "hqq_using", !.params = r.params]
              /\ UNCHANGED hist
           \/ /\ ~r.raised /\ r.warns = 0
              /\ Emit(<<Line("HQQ", "INFO", "Using HQQ parameters")>>)
              /\ pc' = [pc EXCEPT !.at = "hqq_import", !.params = r.params]
              /\ UNCHANGED hist
    /\ NoFault /\ Fixed /\ UNCHANGED fs

\* line 654, after the warning of line 650
quantize_hqq_using ==
    /\ pc.at = "hqq_using"
    /\ Emit(<<Line("HQQ", "INFO", "Using HQQ parameters")>>)
    /\ Goto("hqq_import")
    /\ NoFault /\ Fixed /\ UNCHANGED <<fs, hist>>

\* lines 655-660
quantize_hqq_import ==
    /\ pc.at = "hqq_import"
    /\ \/ /\ "hqq" \in env.missing
          /\ Caught("HQQ", "import")
       \/ /\ "hqq" \notin env.missing
          /\ Emit(<<Line("HQQ", "INFO", "Downloading HQQ model and tokenizer...")>>)
          /\ Goto("hqq_load")
          /\ UNCHANGED hist
    /\ NoFault /\ Fixed /\ UNCHANGED fs

\* lines 661-665: the model is loaded by its remote identifier
quantize_hqq_load ==
    /\ pc.at = "hqq_load"
    /\ \/ /\ Fault
          /\ Caught("HQQ", "HQQModelForCausalLM.from_pretrained")
       \/ /\ NoFault
          /\ Emit(<<Line("HQQ", "INFO", "Quantizing model using HQQ...")>>)
          /\ Goto("hqq_quantize")
          /\ UNCHANGED hist
    /\ Fixed /\ UNCHANGED fs

\* lines 666-667
quantize_hqq_quantize ==
    /\ pc.at = "hqq_quantize"
    /\ \/ /\ Fault
          /\ Caught("HQQ", "quantize_model")
       \/ /\ NoFault
          /\ Emit(<<Line("HQQ", "INFO", "HQQ quantization completed. Saving")>>)
          /\ Goto("hqq_save")
          /\ UNCHANGED hist
    /\ Fixed /\ UNCHANGED fs

\* lines 668-670, up to the call of the publisher
quantize_hqq_save ==
    /\ pc.at = "hqq_save"
    /\ LET save_folder == SaveFolder(model_id, "HQQ")
       IN  \/ /\ Fault
              /\ Caught("HQQ", "save_quantized")
              /\ UNCHANGED fs
           \/ /\ NoFault
              /\ fs' = MakeDirs(fs, "quantized_models", save_folder)
                          \cup {Join(save_folder, "qmodel.pt")}
              /\ Silent
              /\ UploadQuant("HQQ", save_folder)
              /\ UNCHANGED hist
    /\ Fixed

(***************************************************************************)
(* quant_tavern_ui: the cleanup of a model and the end of the batch.       *)
(***************************************************************************)
RECURSIVE SeqOf(_)
\* the elements of a finite set in some fixed order (os.listdir's order)
SeqOf(S) == IF S = {} THEN <<>> ELSE LET x == CHOOSE y \in S : TRUE IN <<x>> \o SeqOf(S \ {x})

\* a cleanup that hands every folder of quantized_models to shutil.rmtree
cleanup_targets_all(files, a, base_model_name) ==
    (IF a.delete_original /\ Exists(files, Join("models", base_model_name))
     THEN <<Join("models", base_model_name)>> ELSE <<>>)
    \o (IF a.delete_quantized /\ Exists(files, "quantized_models")
        THEN MapSeq(LAMBDA f : Join("quantized_models", f),
                    SeqOf(ListDir(files, "quantized_models")))
        ELSE <<>>)

\* the trees lines 753-771 hand to shutil.rmtree, in order
cleanup_targets(files, a, base_model_name) ==
    LET original_path == Join("models", base_model_name)
        quant_dir == "quantized_models"
        folders == {f \in ListDir(files, quant_dir) : StartsWith(f, base_model_name \o "-")}
    IN  (IF a.delete_original /\ Exists(files, original_path) THEN <<original_path>> ELSE <<>>)
        \o (IF a.delete_quantized /\ Exists(files, quant_dir)
            THEN MapSeq(LAMBDA f : Join(quant_dir, f), SeqOf(folders))
            ELSE <<>>)

\* lines 751-772: failing are the trees whose rmtree raises
cleanup ==
    /\ pc.at = "method_loop"
    /\ pc.selected_methods # <<>>
    /\ pc.si = Len(pc.selected_methods)
    /\ \E targets \in {cleanup_targets(fs, args, pc.model_name)} :
         \E failing \in SUBSET {targets[i] : i \in 1..Len(targets)} :
              /\ faults + Cardinality(failing) <= MaxFaults
              /\ faults' = faults + Cardinality(failing)
              /\ fs' = fs \ UNION {Tree(fs, targets[i]) :
                                        i \in {j \in 1..Len(targets) : targets[j] \notin failing}}
              /\ Emit(MapSeq(LAMBDA t : IF t \in failing
                                        THEN Line("ui", "ERROR", "Could not delete " \o t)
                                        ELSE Line("ui", "INFO", "Deleted " \o t),
                             targets))
              /\ Record(<<Ev("cleanup", model_id, 0)>>
                        \o MapSeq(LAMBDA t : Ev("rmtree", t, IF t \in failing THEN 1 ELSE 0),
                                  targets))
    /\ Goto("model_loop")
    /\ Fixed

\* lines 774-775
completed ==
    /\ pc.at = "model_loop"
    /\ pc.mi = Len(pc.model_list)
    /\ Emit(<<Line("ui", "BANNER", "Quantization Process Completed")>>)
    /\ Goto("done")
    /\ NoFault /\ Fixed /\ UNCHANGED <<fs, hist>>

(***************************************************************************)
(* The runs that are explored.                                             *)
(***************************************************************************)
\* the form's values (lines 784-828), GGUF's long list of types cut to two
DefaultArgs ==
    [model_ids |-> "a/foo", username |-> "SpongeEngine",
     gguf_sel |-> TRUE, gguf_param |-> "IQ2_XXS, Q4_K_M",
     gptq_sel |-> FALSE, gptq_param |-> "4, 128, 0.1",
     exllamav2_sel |-> FALSE, exllamav2_param |-> "4.5",
     awq_sel |-> FALSE, awq_param |-> "4, 128, GEMM, True",
     hqq_sel |-> FALSE, hqq_param |-> "2, 128",
     enable_imatrix |-> TRUE, imatrix_file |-> DEFAULT_IMATRIX_FILE,
     calibration_file |-> DEFAULT_CALIBRATION_FILE, recompute_imatrix |-> TRUE,
     imatrix_process_output |-> FALSE, imatrix_no_ppl |-> FALSE, imatrix_in_files |-> "",
     delete_original |-> FALSE, delete_quantized |-> FALSE]

\* the flags of the five method boxes, in the order of the form
Flags(a) == <<a.gguf_sel, a.gptq_sel, a.exllamav2_sel, a.awq_sel, a.hqq_sel>>

Selecting(a, f) ==
    [a EXCEPT !.gguf_sel = f[1], !.gptq_sel = f[2], !.exllamav2_sel = f[3],
              !.awq_sel = f[4], !.hqq_sel = f[5]]

None == <<FALSE, FALSE, FALSE, FALSE, FALSE>>
All == <<TRUE, TRUE, TRUE, TRUE, TRUE>>
Only(n) == [i \in 1..5 |-> i = n]

\* the texts of the model box: two models among blank lines, one model twice, one model
TwoModels == "a/foo\n\n b/bar \n"
SameTwice == "a/foo\na/foo"
OneModel == "a/foo"

\* the world outside: the libraries that cannot be imported, the files of the
\* remote repositories, the lines a child process prints, and whether the
\* model's configuration has a rope_scaling dictionary
DefaultEnv ==
    [missing |-> {}, listing |-> {"config.json", "model.safetensors"},
     proc_lines |-> 1, rope_scaling |-> TRUE]

\* the disk of a fresh host, and the disk a run of a/foo by hand has left behind
FreshFS == {"gguf", DEFAULT_CALIBRATION_FILE}

UsedFS ==
    FreshFS \cup {"models", "models/foo", "models/foo/config.json",
                  "models/foo/model.safetensors", DEFAULT_IMATRIX_FILE,
                  "quantized_models", "quantized_models/foo-GGUF",
                  "quantized_models/foo-GGUF/foo.bf16.gguf",
                  "quantized_models/foo-GGUF/foo-i1-Q4_K_M.gguf"}

\* the disk after runs of a/foo, of b/bar and of a model named foo-bar
SharedFS ==
    UsedFS \cup {"quantized_models/foo-AWQ", "quantized_models/foo-AWQ/model.safetensors",
                 "quantized_models/bar-GGUF", "quantized_models/bar-GGUF/bar.bf16.gguf",
                 "quantized_models/foo-bar-GGUF",
                 "quantized_models/foo-bar-GGUF/foo-bar.bf16.gguf",
                 "models/bar", "models/bar/config.json"}

Run(a, e, files) == [args |-> a, env |-> e, fs |-> files]

\* every combination of the five flags, two models
SelectionRuns ==
    {Run(Selecting([DefaultArgs EXCEPT !.model_ids = TwoModels], f), DefaultEnv, FreshFS) :
        f \in [1..5 -> BOOLEAN]}

\* each parameterised method alone, with short, malformed, empty and full strings
ParameterRuns ==
    {Run(Selecting([DefaultArgs EXCEPT !.model_ids = t, !.gptq_param = p], Only(2)),
         DefaultEnv, FreshFS) :
        t \in {OneModel}, p \in {"8,64", "x,128,0.1", "", "8, 64, 0.5, 9"}}
    \cup {Run(Selecting([DefaultArgs EXCEPT !.exllamav2_param = p], Only(3)),
              DefaultEnv, FreshFS) : p \in {"abc", "", "6"}}
    \cup {Run(Selecting([DefaultArgs EXCEPT !.awq_param = p], Only(4)),
              DefaultEnv, FreshFS) : p \in {"8,64", "x,1,GEMM,True", "", "8, 64, GEMV, yes"}}
    \cup {Run(Selecting([DefaultArgs EXCEPT !.hqq_param = p], Only(5)),
              DefaultEnv, FreshFS) : p \in {"4", "x,64", "", "3, 64"}}
    \cup {Run(Selecting([DefaultArgs EXCEPT !.model_ids = TwoModels,
                                            !.gptq_param = "x,128,0.1"], All),
              DefaultEnv, FreshFS)}

\* GGUF alone: the importance matrix on or off, recomputed or not
GGUFRuns ==
    {Run(Selecting([DefaultArgs EXCEPT !.gguf_param = p, !.enable_imatrix = im[1],
                                       !.recompute_imatrix = im[2]], Only(1)),
         DefaultEnv, files) :
        p \in {"IQ2_XXS, Q4_K_M", "q4_k_m, iq3_s ,Q8_0"},
        im \in {<<TRUE, TRUE>>, <<TRUE, FALSE>>, <<FALSE, FALSE>>},
        files \in {FreshFS, UsedFS}}
    \cup {Run(Selecting([DefaultArgs EXCEPT !.gguf_param = p, !.enable_imatrix = im,
                                            !.recompute_imatrix = FALSE], Only(1)),
              DefaultEnv, FreshFS) :
            p \in {"", "Q4_K_M,", "q8_0,, iq3_s"}, im \in BOOLEAN}
    \cup {Run(Selecting([DefaultArgs EXCEPT !.model_ids = "a/foo\nb/foo",
                                            !.gguf_param = "Q4_K_M",
                                            !.enable_imatrix = FALSE], Only(1)),
              DefaultEnv, FreshFS)}
    \cup {Run(Selecting([DefaultArgs EXCEPT !.model_ids = TwoModels,
                                            !.gguf_param = "Q4_K_M",
                                            !.recompute_imatrix = FALSE], Only(1)),
              DefaultEnv, files) : files \in {FreshFS, UsedFS}}

\* libraries that are not installed
MissingRuns ==
    {Run(Selecting([DefaultArgs EXCEPT !.model_ids = TwoModels], f),
         [DefaultEnv EXCEPT !.missing = m], FreshFS) :
        f \in {All, <<FALSE, TRUE, FALSE, TRUE, FALSE>>},
        m \in {{"transformers"}, {"awq"}, {"hqq"}, {"transformers", "awq", "hqq"}}}

\* the same model twice, and the deletions
RepeatRuns ==
    {Run(Selecting([DefaultArgs EXCEPT !.model_ids = t, !.delete_original = d[1],
                                       !.delete_quantized = d[2]], f),
         DefaultEnv, FreshFS) :
        t \in {SameTwice}, f \in {All, Only(1), Only(3), None},
        d \in {<<FALSE, FALSE>>, <<TRUE, TRUE>>, <<TRUE, FALSE>>, <<FALSE, TRUE>>}}

\* other worlds: a configuration without rope_scaling, a repository with a file
\* snapshot_download ignores, a silent child process
WorldRuns ==
    {Run(Selecting([DefaultArgs EXCEPT !.model_ids = SameTwice], Only(4)),
         [DefaultEnv EXCEPT !.rope_scaling = FALSE], FreshFS),
     Run(Selecting([DefaultArgs EXCEPT !.model_ids = SameTwice], Only(3)),
         [DefaultEnv EXCEPT !.listing = {"config.json", "model.onnx"}], FreshFS),
     Run(Selecting([DefaultArgs EXCEPT !.model_ids = OneModel], Only(3)),
         [DefaultEnv EXCEPT !.proc_lines = 0], UsedFS)}

\* the deletions on a disk that holds the outputs of other runs
CleanupRuns ==
    {Run(Selecting([DefaultArgs EXCEPT !.delete_original = d[1], !.delete_quantized = d[2]], f),
         DefaultEnv, SharedFS) :
        f \in {Only(1), Only(3), None},
        d \in {<<FALSE, FALSE>>, <<TRUE, TRUE>>, <<TRUE, FALSE>>, <<FALSE, TRUE>>}}

\* one model with capitals in its name, GGUF alone, one type, no importance matrix
ScenarioRuns ==
    {Run(Selecting([DefaultArgs EXCEPT !.model_ids = "org/modelA", !.gguf_param = "Q4_K_M",
                                       !.enable_imatrix = FALSE, !.recompute_imatrix = FALSE],
                   Only(1)),
         DefaultEnv, FreshFS)}

Runs == SelectionRuns \cup ParameterRuns \cup GGUFRuns \cup MissingRuns \cup RepeatRuns
            \cup WorldRuns \cup CleanupRuns \cup ScenarioRuns

PC0 ==
    [at |-> "model_loop", mi |-> 0, si |-> 0, ti |-> 0, k |-> 0, ret |-> "", cmd |-> "",
     needs |-> {}, effect |-> {}, out |-> 0, code |-> 0, pending |-> <<>>, qtype |-> "",
     save_folder |-> "", out_file |-> "", params |-> <<>>, model_list |-> <<>>,
     model_id |-> "", model_name |-> "", local_dir |-> "", selected_methods |-> <<>>]

NoRes == [method |-> "", r |-> Raised]

\* line 691: the transcript starts with its banner, nothing is yielded yet
Init ==
    /\ \E run \in Runs : args = run.args /\ env = run.env /\ fs = run.fs
    /\ full_log = <<Line("ui", "BANNER", "Starting SpongeQuant Quantization Process")>>
    /\ yielded = <<>>
    /\ nyields = 0
    /\ pc = [PC0 EXCEPT !.model_list = model_list(args)]
    /\ hist = <<>>
    /\ faults = 0
    /\ raw = ""
    /\ res = NoRes

Next ==
    \/ process_model
    \/ download_model_id
    \/ download_model_target
    \/ download_model_check
    \/ download_model_start
    \/ download_model_snapshot
    \/ no_method_selected
    \/ run_method
    \/ run_command_debug
    \/ run_command_popen
    \/ run_command_line
    \/ run_command_exit
    \/ upload_quant_call
    \/ upload_quant_iter
    \/ quantize_gguf_banner
    \/ quantize_gguf_expected
    \/ quantize_gguf_convert
    \/ quantize_gguf_imatrix
    \/ compute_imatrix_file
    \/ quantize_gguf_method
    \/ quantize_gguf_upload
    \/ quantize_gptq_import
    \/ quantize_gptq_params
    \/ quantize_gptq_using
    \/ quantize_gptq_step
    \/ quantize_exllamav2_banner
    \/ quantize_exllamav2_command
    \/ quantize_exllamav2_completed
    \/ quantize_awq_banner
    \/ quantize_awq_params
    \/ quantize_awq_using
    \/ quantize_awq_import
    \/ quantize_awq_config
    \/ quantize_awq_load
    \/ quantize_awq_quantize
    \/ quantize_hqq_banner
    \/ quantize_hqq_params
    \/ quantize_hqq_using
    \/ quantize_hqq_import
    \/ quantize_hqq_load
    \/ quantize_hqq_quantize
    \/ quantize_hqq_save
    \/ cleanup
    \/ completed

Spec == Init /\ [][Next]_vars

(***************************************************************************)
(* The parameter resolution on its own: every raw string over a small      *)
(* alphabet, and the strings of the form's examples, resolved by each      *)
(* executor's parsing code.                                                *)
(***************************************************************************)
RawAlphabet == {"4", "8", ",", " ", "x"}

RECURSIVE StringsUpTo(_)
StringsUpTo(n) ==
    IF n = 0 THEN {""}
    ELSE LET shorter == StringsUpTo(n - 1)
         IN  shorter \cup {t \o c : t \in shorter, c \in RawAlphabet}

RawStrings ==
    StringsUpTo(MaxRawLen)
        \cup {"8,64", "4, 128, 0.1", "8, 64, 0.25, 7", "4, 128, GEMM, True",
              "8,64,GEMV,no", "3,64,GEMM, YES ", "2, 128", " 3 ,+64", "4.5", "-1,8,.5",
              "x,128,0.1", "abc"}

InitResolve ==
    /\ raw \in RawStrings
    /\ res = NoRes
    /\ args = DefaultArgs /\ env = DefaultEnv /\ fs = FreshFS
    /\ full_log = <<>> /\ yielded = <<>> /\ nyields = 0
    /\ pc = PC0 /\ hist = <<>> /\ faults = 0

\* lines 520-531 of quantize_gptq
resolve_gptq ==
    /\ res' = [method |-> "GPTQ", r |-> gptq_params(raw)]
    /\ UNCHANGED <<raw, args, env, fs, full_log, yielded, nyields, pc, hist, faults>>

\* line 575 of quantize_exllamav2
resolve_exllamav2 ==
    /\ res' = [method |-> "ExLlamaV2", r |-> exllamav2_params(raw)]
    /\ UNCHANGED <<raw, args, env, fs, full_log, yielded, nyields, pc, hist, faults>>

\* lines 592-604 of quantize_awq
resolve_awq ==
    /\ res' = [method |-> "AWQ", r |-> awq_params(raw)]
    /\ UNCHANGED <<raw, args, env, fs, full_log, yielded, nyields, pc, hist, faults>>

\* lines 642-652 of quantize_hqq
resolve_hqq ==
    /\ res' = [method |-> "HQQ", r |-> hqq_params(raw)]
    /\ UNCHANGED <<raw, args, env, fs, full_log, yielded, nyields, pc, hist, faults>>

NextResolve == resolve_gptq \/ resolve_exllamav2 \/ resolve_awq \/ resolve_hqq

SpecResolve == InitResolve /\ [][NextResolve]_vars

(***************************************************************************)
(* patch_model_config and format_quant_type on their own.                  *)
(*                                                                         *)
(* A JSON value is a record [kind, v, items]: v is the text of a number or *)
(* a string, items the <<key, value>> pairs of an object in their order    *)
(* (the elements of an array, with key ""). A file is [layout, json]:      *)
(* json.load forgets the layout, json.dump writes its own.                 *)
(***************************************************************************)
\* the config.json files under test: none, one that is no JSON, and JSON
\* texts in two layouts holding null, a number, arrays, and objects with any
\* choice of seven keys in two orders and six values of rope_scaling
ConfigFiles ==
    LET Val(k, v, items) == [kind |-> k, v |-> v, items |-> items]
        Num(v) == Val("num", v, <<>>)
        Str(v) == Val("str", v, <<>>)
        Null == Val("null", "", <<>>)
        Ropes == {Null, Str("yarn"), Val("dict", "", <<>>),
                  Val("dict", "", <<<<"factor", Num("2.0")>>>>),
                  Val("dict", "", <<<<"type", Str("linear")>>, <<"factor", Num("4.0")>>>>),
                  Val("dict", "", <<<<"factor", Num("8.0")>>, <<"low_freq_factor", Num("1.0")>>,
                                    <<"rope_type", Str("llama3")>>>>)}
        Plain == <<<<"hidden_size", Num("64")>>, <<"rope_type", Str("llama3")>>,
                   <<"low_freq_factor", Num("1.0")>>, <<"vocab_size", Num("32000")>>,
                   <<"high_freq_factor", Num("4.0")>>,
                   <<"original_max_position_embeddings", Num("8192")>>>>
        Pick(seq, keep) == SelectSeq(seq, LAMBDA pair : pair[1] \in keep)
        Reverse(seq) == [i \in 1..Len(seq) |-> seq[Len(seq) + 1 - i]]
        Keys == {Plain[i][1] : i \in 1..Len(Plain)}
        Objects == {Pick(Plain, keep) : keep \in SUBSET Keys}
                   \cup {Pick(Plain, keep) \o <<<<"rope_scaling", r>>>> :
                            keep \in SUBSET Keys, r \in Ropes}
                   \cup {<<<<"rope_scaling", r>>>> \o Reverse(Pick(Plain, keep)) :
                            keep \in SUBSET Keys, r \in Ropes}
        Values == {Null, Num("7"), Val("list", "", <<<<"", Str("a")>>>>),
                   Val("list", "", <<<<"", Str("rope_type")>>, <<"", Str("b")>>>>)}
                  \cup {Val("dict", "", o) : o \in Objects}
    IN  {[layout |-> "missing", json |-> Null], [layout |-> "garbage", json |-> Null]}
        \cup {[layout |-> l, json |-> j] : l \in {"pretty", "dump"}, j \in Values}

\* a patch that keeps the other entries of rope_scaling
patch_model_config_merging(file) ==
    LET Val(k, v, items) == [kind |-> k, v |-> v, items |-> items]
        config_dict == file.json
        Patched(pair) ==
            IF pair[1] = "rope_scaling" /\ pair[2].kind = "dict"
            THEN <<"rope_scaling",
                   Val("dict", "", <<<<"type", Val("str", "linear", <<>>)>>>>
                                   \o SelectSeq(pair[2].items, LAMBDA e : e[1] # "type"))>>
            ELSE pair
    IN  IF file.layout \in {"missing", "garbage"} \/ config_dict.kind # "dict"
        THEN file
        ELSE [layout |-> "dump",
              json |-> Val("dict", "",
                           SelectSeq([i \in 1..Len(config_dict.items) |->
                                         Patched(config_dict.items[i])],
                                     LAMBDA pair : pair[1] \notin
                                        {"low_freq_factor", "high_freq_factor",
                                         "original_max_position_embeddings", "rope_type"}))]

\* lines 63-86: the config.json of model_dir after patch_model_config; every
\* exception is caught at line 85, before the file is opened for writing
patch_model_config(file) ==
    LET Val(k, v, items) == [kind |-> k, v |-> v, items |-> items]
        config_dict == file.json
        extraneous == {"low_freq_factor", "high_freq_factor",
                       "original_max_position_embeddings", "rope_type"}
        \* config_dict["rope_scaling"].get("factor", 1.0)
        Factor(rope) ==
            IF \E i \in 1..Len(rope.items) : rope.items[i][1] = "factor"
            THEN (CHOOSE e \in {rope.items[i] : i \in 1..Len(rope.items)} : e[1] = "factor")[2]
            ELSE Val("num", "1.0", <<>>)
        \* lines 76-78: the assignment keeps the place of the key
        Patched(pair) ==
            IF pair[1] = "rope_scaling" /\ pair[2].kind = "dict"
            THEN <<"rope_scaling",
                   Val("dict", "", <<<<"type", Val("str", "linear", <<>>)>>,
                                     <<"factor", Factor(pair[2])>>>>)>>
            ELSE pair
        dump(value) == [layout |-> "dump", json |-> value]
    IN  CASE file.layout = "missing" -> file              \* lines 70-72
          [] file.layout = "garbage" -> file              \* json.load raises
          [] config_dict.kind = "dict" ->
                dump(Val("dict", "",
                         SelectSeq([i \in 1..Len(config_dict.items) |->
                                       Patched(config_dict.items[i])],
                                   LAMBDA pair : pair[1] \notin extraneous)))
          [] config_dict.kind = "list" ->
                \* 'key in config_dict' looks at the elements; del raises TypeError
                IF \E i \in 1..Len(config_dict.items) :
                      /\ config_dict.items[i][2].kind = "str"
                      /\ config_dict.items[i][2].v \in extraneous
                THEN file
                ELSE dump(config_dict)
          [] OTHER -> file                                 \* 'in' raises TypeError

InitPure ==
    /\ \/ raw \in {[kind |-> "config", inp |-> f] : f \in ConfigFiles}
       \/ raw \in {[kind |-> "qtype", inp |-> q] :
                       q \in {"GGUF", "i1-GGUF", "EXL2", "GPTQ", "AWQ", "HQQ", "gguf",
                              "I1-gguf", "i1-", "I1-", "i1", "exl2", "i1-i1-q4", "I1-I1-x",
                              "Q4_K_M", "i1--a", "-i1-gguf", "", "iq2_xxs", "i1-Q4_k_m"}}
    /\ res = [n |-> 0, out |-> raw.inp, prev |-> raw.inp, repo |-> ""]
    /\ args = DefaultArgs /\ env = DefaultEnv /\ fs = FreshFS
    /\ full_log = <<>> /\ yielded = <<>> /\ nyields = 0
    /\ pc = PC0 /\ hist = <<>> /\ faults = 0

\* patch_model_config(model_dir), called once more on what it left
apply_patch_model_config ==
    /\ raw.kind = "config"
    /\ res.n < 2
    /\ res' = [n |-> res.n + 1, out |-> patch_model_config(res.out), prev |-> res.out,
               repo |-> ""]
    /\ UNCHANGED <<raw, args, env, fs, full_log, yielded, nyields, pc, hist, faults>>

\* format_quant_type(qtype), called once more on what it returned, and the
\* repository upload_quant names for qtype (line 411)
apply_format_quant_type ==
    /\ raw.kind = "qtype"
    /\ res.n < 2
    /\ res' = [n |-> res.n + 1, out |-> format_quant_type(res.out), prev |-> res.out,
               repo |-> repo_id(args.username, BaseName(OneModel), raw.inp)]
    /\ UNCHANGED <<raw, args, env, fs, full_log, yielded, nyields, pc, hist, faults>>

NextPure == apply_patch_model_config \/ apply_format_quant_type

SpecPure == InitPure /\ [][NextPure]_vars

(***************************************************************************)
(* What the claims speak of.                                               *)
(***************************************************************************)
\* the run is over: the generator is exhausted, or an exception has left it
Finished == pc.at \in {"done", "raised"}

\* the fixed order of the methods, and the methods the flags select
FixedOrder == <<"GGUF", "GPTQ", "ExLlamaV2", "AWQ", "HQQ">>

Rank(name) == CHOOSE i \in 1..5 : FixedOrder[i] = name

Chosen(a) == {FixedOrder[i] : i \in {j \in 1..5 : Flags(a)[j]}}

\* the non-blank lines of the texts of the model box, trimmed
ExpectedModels(text) ==
    CASE text = TwoModels -> <<"a/foo", "b/bar">>
      [] text = SameTwice -> <<"a/foo", "a/foo">>
      [] text = OneModel -> <<"a/foo">>
      [] text = "org/modelA" -> <<"org/modelA">>
      [] text = "a/foo\nb/foo" -> <<"a/foo", "b/foo">>

\* the effect e on what for the model of index mi is recorded before position j
Before(j, e, what, mi) ==
    \E i \in 1..(j - 1) : hist[i].e = e /\ hist[i].what = what /\ hist[i].mi = mi

IsPrefix(s, t) == Len(s) <= Len(t) /\ SubSeq(t, 1, Len(s)) = s

(***************************************************************************)
(* C1.                                                                     *)
(***************************************************************************)
\* C1: no exception raised inside a method executor or the publisher escapes
\* quant_tavern_ui, so that a run that is over has ended with the line
\* "Quantization Process Completed" after every model was processed
C1_NoExceptionEscapes ==
    /\ pc.at # "raised"
    /\ Finished => /\ full_log[Len(full_log)].text = "Quantization Process Completed"
                   /\ pc.mi = Len(ExpectedModels(args.model_ids))

(***************************************************************************)
(* C2.                                                                     *)
(***************************************************************************)
ErrorLines(name) ==
    Cardinality({k \in DOMAIN full_log :
                    full_log[k].scope = name /\ full_log[k].level = "ERROR"})

ImportFailures(name) ==
    Cardinality({i \in DOMAIN hist :
                    hist[i].e = "import" /\ hist[i].what = name /\ hist[i].code = 1})

Started(name, mi) ==
    \E j \in DOMAIN hist : hist[j].e = "start" /\ hist[j].what = name /\ hist[j].mi = mi

\* C2: when the library of a method is missing, the transcript has exactly one
\* error line of that method for the model, the method is abandoned at once, and
\* by the end of the run every later selected method of the model and every
\* selected method of every later model has been executed
C2_MissingLibraryIsolated ==
    \A i \in DOMAIN hist :
        (hist[i].e = "import" /\ hist[i].code = 1) =>
            LET name == hist[i].what
                mi == hist[i].mi
            IN  /\ ErrorLines(name) = ImportFailures(name)
                /\ i < Len(hist)
                /\ hist[i + 1] = [e |-> "end", what |-> name, code |-> 0, mi |-> mi]
                /\ Finished =>
                      /\ \A later \in Chosen(args) :
                            Rank(later) > Rank(name) => Started(later, mi)
                      /\ \A mj \in (mi + 1)..Len(ExpectedModels(args.model_ids)) :
                            \A any \in Chosen(args) : Started(any, mj)

(***************************************************************************)
(* C3.                                                                     *)
(***************************************************************************)
\* C3: within one model the selected methods run in the order GGUF, GPTQ,
\* ExLlamaV2, AWQ, HQQ: a method starts only when every selected method earlier
\* in that order has finished for this model, it starts once, and a method that
\* is not selected never starts
C3_FixedOrder ==
    \A j \in DOMAIN hist :
        hist[j].e = "start" =>
            /\ hist[j].what \in Chosen(args)
            /\ \A name \in Chosen(args) :
                    Rank(name) < Rank(hist[j].what) => Before(j, "end", name, hist[j].mi)
            /\ ~Before(j, "start", hist[j].what, hist[j].mi)

\* GGUF, ExLlamaV2 and HQQ are selected and HQQ has started for the second model
C3_Witness ==
    /\ Flags(args) = <<TRUE, FALSE, TRUE, FALSE, TRUE>>
    /\ \E j \in DOMAIN hist : hist[j].e = "start" /\ hist[j].what = "HQQ" /\ hist[j].mi = 2

(***************************************************************************)
(* C4.                                                                     *)
(***************************************************************************)
\* C4: the models are processed in the order of the non-blank lines, one at a
\* time, each in the order download, method executors, cleanup: an executor
\* starts only after the download of its model has returned, the cleanup of a
\* model comes after all its selected methods have finished and nothing of the
\* model but its deletions follows, and the download of the next model starts
\* only after that cleanup
C4_PhaseOrder ==
    LET downloads == SelectSeq(hist, LAMBDA ev : ev.e = "download_model")
        expected == ExpectedModels(args.model_ids)
    IN  /\ Len(downloads) <= Len(expected)
        /\ \A k \in 1..Len(downloads) : downloads[k].what = expected[k] /\ downloads[k].mi = k
        /\ \A i \in 1..(Len(hist) - 1) : hist[i].mi <= hist[i + 1].mi
        /\ \A j \in DOMAIN hist :
              /\ hist[j].e = "start" =>
                    /\ \E i \in 1..(j - 1) : hist[i].e = "download_done" /\ hist[i].mi = hist[j].mi
                    /\ \A i \in 1..(j - 1) : ~(hist[i].e = "cleanup" /\ hist[i].mi = hist[j].mi)
              /\ hist[j].e = "cleanup" =>
                    \A name \in Chosen(args) : Before(j, "end", name, hist[j].mi)
              /\ (hist[j].e = "download_model" /\ hist[j].mi > 1 /\ Chosen(args) # {}) =>
                    \E i \in 1..(j - 1) : hist[i].e = "cleanup" /\ hist[i].mi = hist[j].mi - 1

\* the second model of a box with blank lines is being cleaned up after two methods
C4_Witness ==
    /\ args.model_ids = TwoModels
    /\ Cardinality(Chosen(args)) = 2
    /\ \E j \in DOMAIN hist : hist[j].e = "cleanup" /\ hist[j].what = "b/bar" /\ hist[j].mi = 2

(***************************************************************************)
(* C5.                                                                     *)
(***************************************************************************)
\* C5: the transcript is append-only: each value quant_tavern_ui yields is a
\* prefix of the value it yields next (and so of every later one)
C5_AppendOnly == [][IsPrefix(yielded, yielded')]_vars

\* a run with a failure and a deletion has ended
C5_Witness ==
    /\ pc.at = "done"
    /\ faults > 0
    /\ \E j \in DOMAIN hist : hist[j].e = "rmtree"
    /\ \E k \in DOMAIN yielded : yielded[k].level = "ERROR"

(***************************************************************************)
(* C6.                                                                     *)
(***************************************************************************)
\* C6 as it is claimed: every value quant_tavern_ui yields is strictly longer
\* than the value it yielded before
C6_StrictlyLonger == [][nyields' # nyields => Len(yielded') > Len(yielded)]_vars

\* the yield that ends a model (line 772) when the cleanup has deleted nothing
EndOfModelYield ==
    /\ pc.at = "method_loop" /\ pc'.at = "model_loop"
    /\ pc.selected_methods # <<>>
    /\ \A i \in (Len(hist) + 1)..Len(hist') : hist'[i].e # "rmtree"

\* C6 amended: every value quant_tavern_ui yields extends the value it yielded
\* before, and it is strictly longer except at the yield that ends a model whose
\* cleanup deleted nothing, which repeats the transcript as it was
C6_LongerButAtEndOfModel ==
    [][nyields' # nyields =>
          /\ nyields' = nyields + 1
          /\ IsPrefix(yielded, yielded')
          /\ IF EndOfModelYield THEN yielded' = full_log /\ (nyields > 0 => yielded' = yielded)
             ELSE Len(yielded') > Len(yielded)]_vars

\* a model was ended without a deletion: the yield of line 772 repeated the transcript
C6_Witness ==
    /\ pc.at = "model_loop"
    /\ hist # <<>>
    /\ hist[Len(hist)].e = "cleanup"
    /\ yielded = full_log

(***************************************************************************)
(* C7.                                                                     *)
(***************************************************************************)
\* the files a step produces, as against the directories it makes on its way
IsArtifact(f) == \E ext \in {".gguf", ".safetensors", ".dat"} : EndsWith(f, ext)

\* C7: no step is run again when its output artifact is on the disk, unless the
\* recomputation is forced: when a command is about to be launched, none of the
\* files it produces exists, but for the importance matrix under recompute_imatrix
C7_NoRerunOfExistingArtifact ==
    pc.at = "run_command_popen" =>
        \A f \in pc.effect :
            (IsArtifact(f) /\ Exists(fs, f)) => (f = args.imatrix_file /\ args.recompute_imatrix)

(***************************************************************************)
(* C8.                                                                     *)
(***************************************************************************)
\* the local directory of the current model holds every file of the remote listing
Complete == /\ Exists(fs, local_dir)
            /\ \A f \in env.listing : Exists(fs, Join(local_dir, f))

\* the effects a step adds to the record
NewEffects == SubSeq(hist', Len(hist) + 1, Len(hist'))

\* C8 as it is claimed: a download step on a complete local directory returns at
\* once, without a call of snapshot_download and without any network I/O of the oracle
C8_NoNetworkIO ==
    [][(pc.at = "download_check" /\ Complete) =>
          /\ pc'.at = "method_loop"
          /\ \A i \in DOMAIN NewEffects :
                NewEffects[i].e \notin {"list_repo_files", "snapshot_download"}]_vars

\* C8 amended: a download step on a complete local directory queries the remote
\* listing once, and that is all its network I/O; when the query answers, the
\* step returns without calling snapshot_download and leaves the disk as it is;
\* when the query fails the oracle says no and the model is downloaded again
C8_OneListingQuery ==
    [][(pc.at = "download_check" /\ Complete) =>
          /\ NewEffects # <<>>
          /\ NewEffects[1].e = "list_repo_files" /\ NewEffects[1].what = model_id
          /\ \A i \in 2..Len(NewEffects) :
                NewEffects[i].e \notin {"list_repo_files", "snapshot_download"}
          /\ fs' = fs
          /\ IF NewEffects[1].code = 0
             THEN /\ pc'.at = "method_loop"
                  /\ yielded'[Len(yielded')].text = "already fully downloaded"
             ELSE /\ pc'.at = "download_start"
                  /\ yielded'[Len(yielded')].level = "WARN"]_vars

\* the model was downloaded for the first entry of the box, and the download step
\* of the second entry has found it complete
C8_Witness ==
    \E i, j \in DOMAIN hist :
        /\ i < j /\ j < Len(hist)
        /\ hist[i] = [e |-> "snapshot_download", what |-> "a/foo", code |-> 0, mi |-> 1]
        /\ hist[j] = [e |-> "list_repo_files", what |-> "a/foo", code |-> 0, mi |-> 2]
        /\ hist[j + 1].e = "download_done"

(***************************************************************************)
(* C9.                                                                     *)
(***************************************************************************)
\* the quant-type tokens of the GGUF parameter string, trimmed, in upper case
Tokens == MapSeq(LAMBDA t : Upper(Strip(t)), Split(args.gguf_param, ","))

IsIQ(token) == Len(token) >= 2 /\ SubSeq(token, 1, 2) = "IQ"

Gated(token) == IsIQ(token) /\ ~args.enable_imatrix

\* what follows the last space of a command line
LastWord(s) ==
    LET at == {i \in 1..Len(s) : Char(s, i) = " "}
    IN  IF at = {} THEN s
        ELSE SubSeq(s, (CHOOSE i \in at : \A j \in at : j <= i) + 1, Len(s))

\* the tokens llama-quantize was launched for, for the model of index mi, in order
Quantized(mi) ==
    LET launches == SelectSeq(hist, LAMBDA ev : /\ ev.e = "Popen" /\ ev.mi = mi
                                               /\ StartsWith(ev.what, "\"llama_cpp/build/bin/llama-quantize\""))
    IN  [k \in DOMAIN launches |-> LastWord(launches[k].what)]

\* C9: when the importance matrix is disabled, a token that starts with IQ gets a
\* skip warning and no launch of llama-quantize, and every other token gets its
\* own launch; when it is enabled, no token is skipped
C9_QuantTypeGating ==
    [][(pc.at = "gguf_quant" /\ pc.ti < Len(Tokens)) =>
          LET token == Tokens[pc.ti + 1]
          IN  /\ Quantized(pc.mi) = SelectSeq(SubSeq(Tokens, 1, pc.ti), LAMBDA t : ~Gated(t))
              /\ IF Gated(token)
                 THEN /\ yielded'[Len(yielded')] = Line("GGUF", "WARN", "Skipping " \o token)
                      /\ pc'.at = "gguf_quant" /\ pc'.ti = pc.ti + 1
                      /\ hist' = hist
                 ELSE /\ yielded'[Len(yielded')].level # "WARN"
                      /\ pc'.at = "run_command" /\ pc'.ti = pc.ti + 1
                      /\ EndsWith(pc'.cmd, " " \o token)
                      /\ StartsWith(pc'.cmd, "\"llama_cpp/build/bin/llama-quantize\"")]_vars

\* the importance matrix is disabled: iq3_s was skipped with a warning, and
\* llama-quantize was launched for q4_k_m and for Q8_0
C9_Witness ==
    /\ ~args.enable_imatrix
    /\ pc.at = "gguf_quant"
    /\ Quantized(pc.mi) = <<"Q4_K_M", "Q8_0">>
    /\ \E k \in DOMAIN full_log : full_log[k] = Line("GGUF", "WARN", "Skipping IQ3_S")

(***************************************************************************)
(* C10.                                                                    *)
(***************************************************************************)
\* the number of fields of a comma-separated string
FieldCount(s) == Cardinality({i \in 1..Len(s) : Char(s, i) = ","}) + 1

Blank(s) == \A i \in 1..Len(s) : IsSpace(Char(s, i))

Field(s, i) == Strip(Split(s, ",")[i])

\* what the documentation gives as each method's defaults and field count
DocumentedDefaults(m) ==
    CASE m = "GPTQ" -> <<4, 128, <<1, 1>>>>
      [] m = "AWQ" -> <<4, 128, "GEMM", TRUE>>
      [] m = "HQQ" -> <<2, 128>>

Required(m) == CASE m = "GPTQ" -> 3 [] m = "AWQ" -> 4 [] m = "HQQ" -> 2

\* the fields of each method that are integers
IntFields(m) == {1, 2}

\* the i-th supplied value of method m, typed
Supplied(m, s, i) ==
    IF i \in IntFields(m) THEN IntVal(Field(s, i))
    ELSE IF m = "GPTQ" THEN FloatVal(Field(s, 3))
    ELSE IF i = 3 THEN Field(s, 3)
    ELSE Lower(Field(s, 4)) \in {"true", "1", "yes"}

Parses(m, s) ==
    /\ \A i \in IntFields(m) : IsInt(Field(s, i))
    /\ m = "GPTQ" => IsFloat(Field(s, 3))

\* C10: the resolution of GPTQ, AWQ and HQQ parameters is all-or-nothing: a blank
\* string gives the method's full default tuple without a warning, a string with
\* fewer fields than the method requires gives the full default tuple with exactly
\* one warning (so "8,64" gives GPTQ (4, 128, 0.1) and one warning), and a string
\* with enough fields gives the supplied values positionally, or raises when a
\* numeric field does not parse; the result is never a mix of the two
C10_AllOrNothing ==
    res.method \in {"GPTQ", "AWQ", "HQQ"} =>
        LET m == res.method
            n == Required(m)
        IN  /\ Blank(raw) => res.r = [raised |-> FALSE, params |-> DocumentedDefaults(m), warns |-> 0]
            /\ ~Blank(raw) /\ FieldCount(raw) < n =>
                    res.r = [raised |-> FALSE, params |-> DocumentedDefaults(m), warns |-> 1]
            /\ ~Blank(raw) /\ FieldCount(raw) >= n =>
                    /\ res.r.raised <=> ~Parses(m, raw)
                    /\ ~res.r.raised =>
                          /\ Len(res.r.params) = n
                          /\ \A i \in 1..n : res.r.params[i] = Supplied(m, raw, i)
                          /\ res.r.warns = 0
            /\ m = "GPTQ" /\ raw = "8,64" =>
                    res.r.params = <<4, 128, <<1, 1>>>> /\ res.r.warns = 1

\* GPTQ has resolved "8,64", and AWQ a string with four fields
C10_Witness ==
    \/ res.method = "GPTQ" /\ raw = "8,64" /\ res.r.warns = 1
    \/ res.method = "AWQ" /\ raw = "8,64,GEMV,no" /\ ~res.r.raised /\ res.r.warns = 0

(***************************************************************************)
(* C11.                                                                    *)
(***************************************************************************)
\* the step is the cleanup of the current model (lines 751-772)
CleanupStep == Len(hist') > Len(hist) /\ hist'[Len(hist) + 1].e = "cleanup"

\* the lines the step appends to the transcript
NewLines == SubSeq(full_log', Len(full_log) + 1, Len(full_log'))

\* the output folders of the current model that are on the disk
OwnFolders ==
    {Join("quantized_models", d) :
        d \in {e \in ListDir(fs, "quantized_models") : StartsWith(e, model_name \o "-")}}

\* the output folders of models whose name does not begin with the current one's
UnrelatedFolders ==
    {Join("quantized_models", d) :
        d \in {e \in ListDir(fs, "quantized_models") : ~StartsWith(e, model_name)}}

Outside(f) == f # "quantized_models" /\ ~StartsWith(f, "quantized_models/")

\* what C11 says of the folders the deletion leaves alone: the folders of
\* unrelated models and everything outside quantized_models but the model's own
\* download (which delete_original removes) stay, and with delete_quantized off
\* nothing under quantized_models is removed by any step
CleanupFrame ==
    /\ CleanupStep =>
          /\ \A d \in UnrelatedFolders : Tree(fs, d) \subseteq fs'
          /\ \A f \in fs \ fs' :
                Outside(f) => args.delete_original /\ f \in Tree(fs, Join("models", model_name))
    /\ ~args.delete_quantized => \A f \in fs \ fs' : Outside(f)

\* C11 as stated: with delete_quantized on, the cleanup of a model removes
\* every folder quantized_models/<model>-<METHOD> that is on the disk, touches
\* no folder of an unrelated model and nothing outside quantized_models; with
\* delete_quantized off nothing under quantized_models is removed
C11_EveryOwnFolderRemoved ==
    [][/\ (CleanupStep /\ args.delete_quantized) => \A d \in OwnFolders : Tree(fs, d) \cap fs' = {}
       /\ CleanupFrame]_vars

\* C11, amended: every such folder is removed unless its rmtree raised, which
\* the transcript records as an error line naming the folder
C11_OwnFoldersRemovedUnlessError ==
    [][/\ (CleanupStep /\ args.delete_quantized) =>
             \A d \in OwnFolders :
                \/ Tree(fs, d) \cap fs' = {}
                \/ /\ Tree(fs, d) \subseteq fs'
                   /\ \E k \in DOMAIN NewLines :
                         NewLines[k] = Line("ui", "ERROR", "Could not delete " \o d)
       /\ CleanupFrame]_vars

\* foo-GGUF and foo-AWQ of earlier runs are deleted and bar-GGUF is still there
C11_Witness ==
    /\ args.delete_quantized
    /\ \A d \in {"quantized_models/foo-GGUF", "quantized_models/foo-AWQ"} :
          /\ d \notin fs
          /\ \E j \in DOMAIN hist : hist[j] = [e |-> "rmtree", what |-> d, code |-> 0, mi |-> 1]
    /\ "quantized_models/bar-GGUF/bar.bf16.gguf" \in fs
(***************************************************************************)
(* C12.                                                                    *)
(***************************************************************************)
NoMethodLines ==
    Cardinality({k \in DOMAIN full_log :
                    full_log[k] = Line("ui", "ERROR", "No quantization method selected for model")})

\* the models whose iteration of the loop of line 695 is over
ModelsEnded == IF pc.at \in {"model_loop", "done"} THEN pc.mi ELSE pc.mi - 1

\* how far the batch is when nothing is selected: ten per model, and the place
\* within the model's iteration
Progress ==
    10 * pc.mi + (CASE pc.at = "download_id" -> 1
                    [] pc.at = "download_target" -> 2
                    [] pc.at = "download_check" -> 3
                    [] pc.at = "download_start" -> 4
                    [] pc.at = "download_snapshot" -> 5
                    [] pc.at = "method_loop" -> 6
                    [] pc.at = "model_loop" -> 9
                    [] pc.at = "done" -> 10
                    [] OTHER -> 0)

\* C12: when no method is selected each model gets exactly one "No
\* quantization method selected" error line, no executor is invoked (no
\* executor starts, nothing is imported, no process is launched, nothing is
\* published), and the batch goes on to the next model and reaches its end:
\* until the end a step can always be taken, every step brings the end nearer,
\* and at the end every model has been processed
C12_NoMethodSelected ==
    /\ [](Chosen(args) = {} =>
            /\ NoMethodLines = ModelsEnded
            /\ \A j \in DOMAIN hist :
                  hist[j].e \notin {"start", "import", "Popen", "create_repo", "upload_folder"}
            /\ pc.at # "raised"
            /\ pc.at # "done" => ENABLED Next
            /\ Progress <= 10 * Len(ExpectedModels(args.model_ids)) + 10
            /\ pc.at = "done" =>
                  /\ pc.mi = Len(ExpectedModels(args.model_ids))
                  /\ NoMethodLines = Len(ExpectedModels(args.model_ids))
                  /\ full_log[Len(full_log)].text = "Quantization Process Completed")
    /\ [][Chosen(args) = {} => Progress' > Progress]_vars

\* a batch of two models with nothing selected has ended
C12_Witness ==
    /\ Chosen(args) = {}
    /\ args.model_ids = TwoModels
    /\ pc.at = "done"
    /\ NoMethodLines = 2
(***************************************************************************)
(* C13.                                                                    *)
(***************************************************************************)
InRunCommand == pc.at \in {"run_command", "run_command_popen", "run_command_read"}

\* the line of line 107 for an exit code
Diagnostic(code) ==
    Line("run_command", "ERROR", "Command returned non-zero exit code: " \o NatText(code))

Diagnostics == {k \in DOMAIN full_log : full_log[k].scope = "run_command"
                                           /\ full_log[k].level = "ERROR"}

FailedExits == {j \in DOMAIN hist : hist[j].e = "exit" /\ hist[j].code # 0}

\* C13: run_command never raises on a process failure.  When the child has
\* exited and its output is drained, a non-zero code makes the runner yield
\* one last item, the diagnostic line with that code, a zero code makes it
\* yield nothing more, and either way the generator ends and its caller goes
\* on; the transcript has as many diagnostic lines as processes that failed
C13_RunCommandNeverRaises ==
    /\ [](Cardinality(Diagnostics) = Cardinality(FailedExits))
    /\ [][InRunCommand =>
            /\ pc'.at # "raised"
            /\ (pc.at = "run_command_read" /\ pc.out = 0) =>
                  /\ pc'.at = pc.ret
                  /\ hist' = Append(hist, [e |-> "exit", what |-> pc.cmd, code |-> pc.code,
                                            mi |-> pc.mi])
                  /\ pc.code # 0 =>
                        /\ full_log' = Append(full_log, Diagnostic(pc.code))
                        /\ yielded' = full_log'
                        /\ nyields' = nyields + 1
                  /\ pc.code = 0 => UNCHANGED <<full_log, yielded, nyields>>]_vars

\* one process of the run has exited with 0 and another with 127
C13_Witness ==
    /\ \E j \in DOMAIN hist : hist[j].e = "exit" /\ hist[j].code = 0
    /\ \E j \in DOMAIN hist :
          /\ hist[j].e = "exit" /\ hist[j].code = 127
          /\ \E k \in DOMAIN full_log : full_log[k] = Diagnostic(127)
(***************************************************************************)
(* C14.                                                                    *)
(***************************************************************************)
\* the parameter string of the method has a numeric field that does not parse
ParseRaises(name) ==
    CASE name = "GPTQ" -> gptq_params(args.gptq_param).raised
      [] name = "ExLlamaV2" -> exllamav2_params(args.exllamav2_param).raised
      [] name = "AWQ" -> awq_params(args.awq_param).raised
      [] name = "HQQ" -> hqq_params(args.hqq_param).raised
      [] OTHER -> FALSE

\* the method was abandoned for the model with a line in the transcript and
\* every selected method was run for it
Isolated(name, mi) ==
    /\ ErrorLines(name) >= mi
    /\ \E j \in DOMAIN hist : hist[j] = [e |-> "end", what |-> name, code |-> 0, mi |-> mi]
    /\ \A other \in Chosen(args) : Started(other, mi)

\* C14: a numeric field that does not parse in the parameter string of GPTQ,
\* ExLlamaV2, AWQ or HQQ is fatal for that method only: no exception leaves
\* the run, for every model the method is abandoned with a transcript line and
\* the other selected methods still run, and the batch goes through all models
C14_ParseFailureIsolated ==
    \A name \in Chosen(args) :
        ParseRaises(name) =>
            /\ pc.at # "raised"
            /\ \A mi \in 1..ModelsEnded : Isolated(name, mi)
            /\ pc.at = "done" => pc.mi = Len(ExpectedModels(args.model_ids))

\* the same for ExLlamaV2, AWQ and HQQ when GPTQ is left out of the run
C14_IsolatedButGPTQ ==
    ~args.gptq_sel => C14_ParseFailureIsolated
(***************************************************************************)
(* C15.                                                                    *)
(***************************************************************************)
\* the log upload_quant has returned: its first piece, just yielded, and the rest
ReturnedLog == <<full_log'[Len(full_log')]>> \o pc'.pending

\* the calls upload_quant has made
NewCalls == SubSeq(hist', Len(hist) + 1, Len(hist'))

CardError == Line("upload_quant", "ERROR", "Error creating custom model card")

PushError == Line("upload_quant", "ERROR", "Error uploading model")

IsUploaded(line) ==
    line.scope = "upload_quant" /\ StartsWith(line.text, "Uploaded quantized model to ")

Count(seq, Test(_)) == Cardinality({k \in DOMAIN seq : Test(seq[k])})

\* C15: upload_quant never raises.  Its log comes back to the caller; a
\* failure to write the model card is one error line of its own, after which
\* create_repo is still called, and upload_folder after it when the repository
\* is ready; a failure of create_repo or upload_folder is one separate error
\* line; and the log has the "Uploaded" line iff neither of the two failed
C15_UploadNeverRaises ==
    [][pc.at = "upload_quant" =>
         LET log == ReturnedLog
             calls == NewCalls
             card_failed == Count(log, LAMBDA l : l = CardError) = 1
             push_failed == \E k \in DOMAIN calls : calls[k].code # 0
         IN  /\ pc'.at = "upload_quant_iter"
             /\ Count(log, LAMBDA l : l = CardError) <= 1
             /\ card_failed => fs' = fs
             /\ ~card_failed => fs' = fs \cup {Join(pc.save_folder, "README.md")}
             /\ Len(calls) >= 1 /\ calls[1].e = "create_repo"
             /\ calls[1].code = 0 <=> (Len(calls) = 2 /\ calls[2].e = "upload_folder")
             /\ calls[1].code # 0 => Len(calls) = 1
             /\ Count(log, LAMBDA l : l = PushError) = (IF push_failed THEN 1 ELSE 0)
             /\ Count(log, IsUploaded) = (IF push_failed THEN 0 ELSE 1)
             /\ log[Len(log)] = PushError \/ IsUploaded(log[Len(log)])]_vars

\* the model card could not be written and the folder was uploaded all the same
C15_Witness ==
    \E k \in DOMAIN full_log :
        /\ full_log[k] = CardError
        /\ \E l \in DOMAIN full_log : l > k /\ IsUploaded(full_log[l])
        /\ \E j \in DOMAIN hist : hist[j].e = "upload_folder" /\ hist[j].code = 0
(***************************************************************************)
(* C16.                                                                    *)
(***************************************************************************)
\* the tool a launched command names
Launches(j, tool) ==
    hist[j].e = "Popen" /\ StartsWith(hist[j].what, Quoted(Join("llama_cpp/build/bin", tool)))

Converts(j) ==
    /\ hist[j].e = "Popen"
    /\ StartsWith(hist[j].what, Quoted(sys_executable) \o " "
                                    \o Quoted(Join("llama_cpp", "convert_hf_to_gguf.py")))

\* recomputation is forced or the output file of the tool is not on the disk
ImatrixDue == args.enable_imatrix /\ (args.recompute_imatrix \/ args.imatrix_file \notin fs)

\* C16: in a GGUF run, once the base conversion step is over, the
\* importance-matrix tool is launched iff the matrix is enabled and (its
\* recomputation is forced or its output file does not exist), and otherwise
\* the run goes straight on to the quant types without a word; the tool is
\* launched at most once per GGUF run, after the conversion has exited and
\* before the first llama-quantize
C16_ImatrixWhenDue ==
    /\ [](\A j \in DOMAIN hist :
            Launches(j, "llama-imatrix") =>
                /\ args.enable_imatrix
                /\ \A i \in DOMAIN hist :
                      hist[i].mi = hist[j].mi =>
                          /\ Launches(i, "llama-imatrix") => i = j
                          /\ Launches(i, "llama-quantize") => i > j
                          /\ Converts(i) => i < j /\ hist[i + 1].e = "exit"
                          /\ (hist[i].e = "start" /\ hist[i].what = "GGUF") => i < j
                          /\ (hist[i].e = "end" /\ hist[i].what = "GGUF") => i > j)
    /\ [][/\ (pc.at = "gguf_imatrix" /\ ImatrixDue) => pc'.at = "imatrix_cmd"
          /\ (pc.at = "gguf_imatrix" /\ ~ImatrixDue) =>
                pc'.at = "gguf_quant" /\ UNCHANGED <<full_log, nyields, hist, fs>>
          /\ pc'.at = "imatrix_cmd" => pc.at = "gguf_imatrix"
          /\ pc.at = "imatrix_cmd" =>
                /\ pc'.at = "run_command"
                /\ StartsWith(pc'.cmd, Quoted(Join("llama_cpp/build/bin", "llama-imatrix")))
                /\ pc'.ret = "gguf_quant"
          /\ (pc.at = "run_command_popen"
                /\ StartsWith(pc.cmd, Quoted(Join("llama_cpp/build/bin", "llama-imatrix")))) =>
                   hist' = Append(hist, [e |-> "Popen", what |-> pc.cmd, code |-> 0,
                                         mi |-> pc.mi])]_vars

\* the matrix is enabled, not forced, and its file is missing: the tool was
\* launched between the conversion and the first llama-quantize of the run
C16_Witness ==
    /\ args.enable_imatrix /\ ~args.recompute_imatrix
    /\ \E i, j, k \in DOMAIN hist :
          /\ i < j /\ j < k
          /\ Converts(i) /\ Launches(j, "llama-imatrix") /\ Launches(k, "llama-quantize")
(***************************************************************************)
(* C17.                                                                    *)
(***************************************************************************)
\* the query of the remote listing that the step has made, if any
Queried(code) ==
    \E k \in (Len(hist) + 1)..Len(hist') :
        hist'[k].e = "list_repo_files" /\ hist'[k].code = code

\* the files of the remote listing that the local directory lacks
Lacking == {f \in env.listing : Join(local_dir, f) \notin fs}

\* C17: when download_model decides (lines 173-180), the model counts as not
\* fully downloaded, and is downloaded again, whenever its local directory is
\* missing, is empty or lacks a file of the remote listing, and whenever the
\* query of the remote listing fails; it counts as fully downloaded, and the
\* download is skipped, only when the query answered and every listed file has
\* its local file in a directory that is not empty
C17_DownloadOracle ==
    [][/\ pc.at = "download_check" =>
            /\ pc'.at \in {"download_start", "method_loop"}
            /\ (\/ local_dir \notin fs
                \/ ListDir(fs, local_dir) = {}
                \/ Lacking # {}
                \/ Queried(1)) => pc'.at = "download_start"
            /\ pc'.at = "method_loop" =>
                  /\ Queried(0)
                  /\ local_dir \in fs
                  /\ ListDir(fs, local_dir) # {}
                  /\ \A f \in env.listing : Join(local_dir, f) \in fs
       /\ pc.at = "download_start" => pc'.at = "download_snapshot"
       /\ pc.at = "download_snapshot" =>
            \E code \in {0, 1} :
                hist'[Len(hist) + 1] = [e |-> "snapshot_download", what |-> model_id,
                                        code |-> code, mi |-> pc.mi]]_vars

\* the directory of the second model holds all but one file of the listing:
\* the query answered and the model was downloaded again
C17_Witness ==
    \E j \in DOMAIN hist :
        /\ hist[j] = [e |-> "list_repo_files", what |-> "a/foo", code |-> 0, mi |-> 2]
        /\ j < Len(hist)
        /\ hist[j + 1].e = "snapshot_download"
        /\ "models/foo/config.json" \in fs
        /\ "model.onnx" \in env.listing
(***************************************************************************)
(* C18.                                                                    *)
(***************************************************************************)
Scenario ==
    /\ args.model_ids = "org/modelA"
    /\ Flags(args) = Only(1)
    /\ args.gguf_param = "Q4_K_M"
    /\ ~args.enable_imatrix

\* the downloads, the launched processes and the publish attempts of the run
Milestones == SelectSeq(hist, LAMBDA ev : ev.e \in {"snapshot_download", "Popen", "create_repo"})

PublishLines(repo) ==
    Cardinality({k \in DOMAIN full_log :
                    full_log[k] = Line("upload_quant", "INFO",
                                       "Preparing to upload to repo: " \o repo)})

\* C18: for the batch ["org/modelA"] with GGUF alone, parameter "Q4_K_M" and
\* the importance matrix off, the run downloads into models/modelA, launches
\* the conversion with output quantized_models/modelA-GGUF/modela.bf16.gguf,
\* launches llama-quantize once, with output
\* quantized_models/modelA-GGUF/modela-Q4_K_M.gguf, and makes one publish
\* attempt, logged for <username>/modelA-GGUF, in this order; it launches no
\* other process, so neither llama-imatrix nor a second llama-quantize
C18_EndToEndScenario ==
    Scenario =>
        LET m == Milestones
            folder == "quantized_models/modelA-GGUF"
            repo == args.username \o "/modelA-GGUF"
        IN  /\ pc.at # "raised"
            /\ Len(m) <= 4
            /\ Len(m) >= 1 =>
                  /\ m[1].e = "snapshot_download" /\ m[1].what = "org/modelA"
                  /\ local_dir = "models/modelA"
                  /\ m[1].code = 0 => "models/modelA" \in fs
            /\ Len(m) >= 2 =>
                  /\ m[2].e = "Popen"
                  /\ StartsWith(m[2].what, Quoted(sys_executable) \o " "
                                    \o Quoted("llama_cpp/convert_hf_to_gguf.py") \o " models/modelA ")
                  /\ EndsWith(m[2].what, " --outfile " \o folder \o "/modela.bf16.gguf")
            /\ Len(m) >= 3 =>
                  /\ m[3].e = "Popen"
                  /\ StartsWith(m[3].what, Quoted("llama_cpp/build/bin/llama-quantize"))
                  /\ EndsWith(m[3].what, " " \o folder \o "/modela-Q4_K_M.gguf Q4_K_M")
            /\ Len(m) >= 4 => m[4].e = "create_repo" /\ m[4].what = repo
            /\ PublishLines(repo) = (IF Len(m) = 4 THEN 1 ELSE 0)
            /\ pc.at = "done" => Len(m) = 4

\* the scenario has run to its end and the converted file is on the disk
C18_Witness ==
    /\ Scenario
    /\ pc.at = "done"
    /\ "quantized_models/modelA-GGUF/modela.bf16.gguf" \in fs
    /\ \E j \in DOMAIN hist : hist[j].e = "create_repo" /\ hist[j].what = "SpongeEngine/modelA-GGUF"
(***************************************************************************)
(* C19.                                                                    *)
(***************************************************************************)
\* the suffixes of the save folders of the five executors
OutputSuffixes == {"GGUF", "GPTQ", "EXL2", "AWQ", "HQQ"}

\* C19: with delete_quantized on, the cleanup of a model removes, under
\* quantized_models, only what is in the output folders of that model: the
\* folders of another model whose name begins with this model's name and "-"
\* (foo-bar-GGUF when foo is cleaned up) are left untouched
C19_OnlyOwnOutputsRemoved ==
    [][(CleanupStep /\ args.delete_quantized) =>
          \A f \in fs \ fs' :
              \/ Outside(f)
              \/ \E suffix \in OutputSuffixes : f \in Tree(fs, SaveFolder(model_id, suffix))]_vars

(***************************************************************************)
(* C20.                                                                    *)
(***************************************************************************)
\* the step ends the iteration of the current model
IterationEnds == pc.at # "model_loop" /\ pc'.at = "model_loop"

DeletionErrors(path) ==
    {k \in DOMAIN full_log' : full_log'[k] = Line("ui", "ERROR", "Could not delete " \o path)}

\* C20: with delete_original on, the cleanup runs for every model of the
\* batch, also for a model for which no method is selected: when the
\* iteration of a model ends its directory models/<base-name> does not exist,
\* unless the transcript records that its deletion failed
C20_CleanupForEveryModel ==
    [][(IterationEnds /\ args.delete_original) =>
          \/ Join("models", model_name) \notin fs'
          \/ DeletionErrors(Join("models", model_name)) # {}]_vars

\* the same for the models for which a method is selected
C20_CleanupWhenSelected ==
    [][(IterationEnds /\ args.delete_original /\ Chosen(args) # {}) =>
          \/ Join("models", model_name) \notin fs'
          \/ DeletionErrors(Join("models", model_name)) # {}]_vars
(***************************************************************************)
(* C21.                                                                    *)
(***************************************************************************)
\* the folders right under quantized_models
OutputFolders == {Join("quantized_models", d) : d \in ListDir(fs, "quantized_models")}

\* the folder was uploaded to the registry by this run
UploadedInRun(d) ==
    \E j \in DOMAIN hist : hist[j].e = "upload_folder" /\ hist[j].what = d /\ hist[j].code = 0

\* C21: with delete_quantized on, an output folder is deleted only after its
\* upload succeeded in the same run: a folder whose upload failed, or whose
\* executor failed before it reached the publish step, is not deleted
C21_DeletedOnlyAfterUpload ==
    [][(CleanupStep /\ args.delete_quantized) =>
          \A d \in OutputFolders :
              (Tree(fs, d) \cap fs' = {}) => UploadedInRun(d)]_vars
(***************************************************************************)
(* C22.                                                                    *)
(***************************************************************************)
\* the default tuple was substituted for what the string supplies
Defaulted(m, s) == Blank(s) \/ FieldCount(s) < Required(m)

\* C22: for GPTQ, AWQ and HQQ the resolution yields one warning whenever the
\* default tuple is substituted, that is when the string is blank and when it
\* has fewer fields than the method requires, and no warning when the
\* supplied values are used
C22_WarningWheneverDefaulted ==
    (res.method \in {"GPTQ", "AWQ", "HQQ"} /\ ~res.r.raised) =>
        /\ Defaulted(res.method, raw) => res.r.warns = 1
        /\ ~Defaulted(res.method, raw) => res.r.warns = 0

(***************************************************************************)
(* C23.                                                                    *)
(***************************************************************************)
\* the string has enough fields and one that is not the number it should be
Malformed(m, s) ==
    IF m = "ExLlamaV2" THEN ~Blank(s) /\ ~IsFloat(s)
    ELSE ~Blank(s) /\ FieldCount(s) >= Required(m) /\ ~Parses(m, s)

\* C23: a malformed parameter string never aborts the method: the resolution
\* does not raise, it yields the documented defaults of the method and one
\* warning, with which the method goes on
C23_MalformedFallsBack ==
    (res.method # "" /\ Malformed(res.method, raw)) =>
        /\ ~res.r.raised
        /\ res.r.warns = 1
        /\ res.r.params = (IF res.method = "ExLlamaV2" THEN <<<<45, 1>>>>
                           ELSE DocumentedDefaults(res.method))
(***************************************************************************)
(* C24.                                                                    *)
(***************************************************************************)
\* the command line is the quoted location, a blank, and the arguments
WellFormed(command, location) ==
    /\ FirstWord(command) = location
    /\ StartsWith(command, Quoted(location) \o " ")

\* C24: every command line build_llama_cmd builds is the location of the
\* script or executable followed by the arguments as separate words: in the
\* commands launched for llama-quantize and llama-imatrix the first argument
\* is separated from the executable, as it is from the script in the commands
\* launched for convert_hf_to_gguf.py
C24_CommandShape ==
    \A j \in DOMAIN hist :
        /\ Converts(j) =>
              /\ FirstWord(hist[j].what) = sys_executable
              /\ StartsWith(hist[j].what, Quoted(sys_executable) \o " "
                                \o Quoted(Join("llama_cpp", "convert_hf_to_gguf.py")) \o " ")
        /\ \A tool \in {"llama-quantize", "llama-imatrix"} :
              Launches(j, tool) =>
                  WellFormed(hist[j].what, Join("llama_cpp/build/bin", tool))
(***************************************************************************)
(* C25.                                                                    *)
(***************************************************************************)
\* C25: llama-quantize is launched only for quant types that are not empty:
\* whatever the parameter string (blank, or with a trailing or doubled comma),
\* no launch has an empty quant type as its last argument and none has
\* <base>-.gguf (or <base>-i1-.gguf) as its output file
C25_NoEmptyQuantType ==
    \A j \in DOMAIN hist :
        Launches(j, "llama-quantize") =>
            /\ LastWord(hist[j].what) # ""
            /\ ~EndsWith(hist[j].what, "-.gguf " \o LastWord(hist[j].what))
(***************************************************************************)
(* C26.                                                                    *)
(***************************************************************************)
\* the tokens of the list that are not skipped, in order
NonSkipped == SelectSeq(Tokens, LAMBDA t : ~Gated(t))

GGUFEnded(mi) ==
    \E j \in DOMAIN hist : hist[j] = [e |-> "end", what |-> "GGUF", code |-> 0, mi |-> mi]

\* the publish attempts of the GGUF run of the model of index mi
Publishes(mi) ==
    {j \in DOMAIN hist : /\ hist[j].e = "create_repo" /\ hist[j].mi = mi
                          /\ EndsWith(hist[j].what, "-GGUF")}

QuantizeLaunches(mi) ==
    {j \in DOMAIN hist : Launches(j, "llama-quantize") /\ hist[j].mi = mi}

\* C26: in a GGUF run llama-quantize is launched once for every token that is
\* not skipped, in the order of the list, whatever the exit codes of the
\* conversion and of the earlier launches, and the publish step is attempted
\* exactly once, after the last launch has exited
C26_EveryTokenOnce ==
    "GGUF" \in Chosen(args) =>
        \A mi \in 1..pc.mi :
            /\ IsPrefix(Quantized(mi), NonSkipped)
            /\ Cardinality(Publishes(mi)) <= 1
            /\ \A p \in Publishes(mi) :
                  /\ Quantized(mi) = NonSkipped
                  /\ \A q \in QuantizeLaunches(mi) : q < p /\ hist[q + 1].e = "exit"
            /\ (mi <= ModelsEnded \/ GGUFEnded(mi)) => Cardinality(Publishes(mi)) = 1

\* the conversion has failed, llama-quantize was launched for both tokens all
\* the same, each launch exited with 127, and the folder was published
C26_Witness ==
    /\ GGUFEnded(1)
    /\ Len(Quantized(1)) = 2
    /\ Cardinality(Publishes(1)) = 1
    /\ \E j \in DOMAIN hist : Converts(j) /\ hist[j + 1].e = "exit" /\ hist[j + 1].code = 1
    /\ \A q \in QuantizeLaunches(1) : hist[q + 1].code = 127
(***************************************************************************)
(* C27.                                                                    *)
(***************************************************************************)
HasInfix(s, p) ==
    \E i \in 1..(Len(s) - Len(p) + 1) : SubSeq(s, i, i + Len(p) - 1) = p

\* the child at hand is the matrix tool
ImatrixChild == StartsWith(pc.cmd, Quoted(Join("llama_cpp/build/bin", "llama-imatrix")))

\* the launches of the matrix tool of model mi that have exited non-zero
FailedImatrix(mi) ==
    {j \in DOMAIN hist : /\ Launches(j, "llama-imatrix") /\ hist[j].mi = mi
                          /\ j + 1 \in DOMAIN hist
                          /\ hist[j + 1].e = "exit" /\ hist[j + 1].code # 0}

\* C27: the matrix tool is launched once and never again: when it exits
\* non-zero its output file is not written, the exit code is reported in the
\* transcript, and the run goes on to the loop of the quant types, which
\* launches llama-quantize for every token with the --imatrix argument and the
\* name of the matrix file
C27_ImatrixFailureGoesOn ==
    /\ [][(pc.at = "run_command_read" /\ ImatrixChild /\ pc.out = 0 /\ pc.code # 0) =>
             /\ NewLines = <<Diagnostic(pc.code)>>
             /\ fs' = fs
             /\ pc'.at = "gguf_quant" /\ pc'.ti = 0
             /\ hist' = Append(hist, [e |-> "exit", what |-> pc.cmd, code |-> pc.code,
                                      mi |-> pc.mi])]_vars
    /\ [](\A mi \in 1..pc.mi : \A j \in FailedImatrix(mi) :
             /\ \E k \in DOMAIN full_log : full_log[k] = Diagnostic(hist[j + 1].code)
             /\ \A i \in DOMAIN hist :
                   hist[i].mi = mi =>
                       /\ Launches(i, "llama-imatrix") => i = j
                       /\ Launches(i, "llama-quantize") =>
                              /\ i > j + 1
                              /\ HasInfix(hist[i].what,
                                          "--imatrix " \o args.imatrix_file \o " ")
             /\ GGUFEnded(mi) => Quantized(mi) = Tokens /\ Tokens # <<>>)

\* the matrix tool has failed and the GGUF run has ended after launching
\* llama-quantize for both tokens
C27_Witness ==
    /\ FailedImatrix(1) # {}
    /\ GGUFEnded(1)
    /\ Len(Quantized(1)) = 2
    /\ args.imatrix_file \notin fs
(***************************************************************************)
(* C28.                                                                    *)
(***************************************************************************)
\* the children that were started and have not exited
NAlive ==
    Cardinality({j \in DOMAIN hist : hist[j].e = "Popen"})
        - Cardinality({j \in DOMAIN hist : hist[j].e = "exit"})

\* the executors that were entered and have not returned
Active ==
    {j \in DOMAIN hist :
        /\ hist[j].e = "start"
        /\ ~\E i \in DOMAIN hist : /\ i > j /\ hist[i].e = "end"
                                    /\ hist[i].what = hist[j].what
                                    /\ hist[i].mi = hist[j].mi}

NewEvents == SubSeq(hist', Len(hist) + 1, Len(hist'))

\* C28: at most one child of run_command is alive at any time, and it is
\* alive only while run_command reads its output; a child is started only
\* when none is alive, its exit is taken only when its output is drained,
\* and at most one executor is active at any time, entered only when no
\* child is alive and no other executor is active
C28_OneAtATime ==
    /\ [](/\ NAlive \in {0, 1}
          /\ NAlive = 1 <=> pc.at = "run_command_read"
          /\ Cardinality(Active) <= 1
          /\ \A j \in DOMAIN hist :
                hist[j].e = "Popen" /\ j < Len(hist) =>
                    hist[j + 1] = [hist[j] EXCEPT !.e = "exit", !.code = hist[j + 1].code])
    /\ [][\A k \in DOMAIN NewEvents :
             /\ NewEvents[k].e = "Popen" => NAlive = 0 /\ Len(NewEvents) = 1
             /\ NewEvents[k].e = "exit" =>
                    NAlive = 1 /\ pc.out = 0 /\ hist[Len(hist)].what = NewEvents[k].what
             /\ NewEvents[k].e = "start" => NAlive = 0 /\ Active = {}]_vars

\* a child is alive in the second executor of a run; the first executor has
\* returned and its children have exited
C28_Witness ==
    /\ NAlive = 1
    /\ \E j \in DOMAIN hist : hist[j].e = "end" /\ hist[j].mi = pc.mi
    /\ \E j \in DOMAIN hist : hist[j].e = "exit" /\ hist[j].mi = pc.mi
    /\ Cardinality(Active) = 1
(***************************************************************************)
(* C29.                                                                    *)
(***************************************************************************)
\* download_model is deciding for the second time about a model whose first
\* download succeeded; what that download left is still on the disk
SecondCall ==
    /\ pc.at = "download_check"
    /\ \E j \in DOMAIN hist :
          /\ hist[j].e = "snapshot_download" /\ hist[j].what = model_id
          /\ hist[j].code = 0 /\ hist[j].mi < pc.mi
    /\ Snapshot(fs, env.listing, local_dir) = fs

\* the second call skips the download
Skips ==
    /\ pc'.at = "method_loop"
    /\ NewLines = <<Line("download_model", "INFO", "already fully downloaded")>>
    /\ \A k \in DOMAIN NewEvents : NewEvents[k].e # "snapshot_download"
    /\ fs' = fs

\* C29: after a successful download of a model, a second call of
\* download_model for it, with the remote listing answered as before and the
\* local directory as the download left it, reports that the model is already
\* fully downloaded and downloads nothing, whatever the listing holds
C29_SecondCallSkips ==
    [][(SecondCall /\ ~Queried(1)) => Skips]_vars

\* the same for the listings without a file of the excluded patterns
C29_SkipsWithoutExcluded ==
    [][(SecondCall /\ ~Queried(1) /\ ~\E f \in env.listing : Ignored(f)) => Skips]_vars
(***************************************************************************)
(* C30.                                                                    *)
(***************************************************************************)
\* the five output directories of a model
MethodFolders(id) ==
    {gguf_save_folder(id)} \cup {SaveFolder(id, s) : s \in {"GPTQ", "EXL2", "AWQ", "HQQ"}}

\* the model reference an event of the history belongs to
RefOf(j) == model_list(args)[hist[j].mi]

\* for one model the five executors write to five different directories
C30_FiveFolders ==
    \A m \in DOMAIN model_list(args) : Cardinality(MethodFolders(model_list(args)[m])) = 5

\* C30: for one model the five executors write to pairwise different output
\* directories, and two different model references of a batch have different
\* download directories, converted base files and output directories, never
\* launch the same command line and never publish the same folder
C30_Namespaced ==
    LET ids == model_list(args)
    IN  /\ C30_FiveFolders
        /\ \A m1, m2 \in DOMAIN ids :
              ids[m1] # ids[m2] =>
                  /\ ModelDir(ids[m1]) # ModelDir(ids[m2])
                  /\ gguf_out_file(ids[m1]) # gguf_out_file(ids[m2])
                  /\ MethodFolders(ids[m1]) \cap MethodFolders(ids[m2]) = {}
        /\ \A i, j \in DOMAIN hist :
              (/\ hist[i].e \in {"Popen", "upload_folder"}
               /\ hist[j].e = hist[i].e
               /\ RefOf(i) # RefOf(j)) => hist[i].what # hist[j].what

\* b/foo was found fully downloaded in the directory a/foo was downloaded to,
\* its conversion was skipped, llama-quantize was launched on the base file
\* converted from a/foo, and the folder of a/foo was published again
C30_SharedBetweenModels ==
    /\ model_list(args) = <<"a/foo", "b/foo">>
    /\ pc.at = "done"
    /\ ~\E j \in DOMAIN hist : hist[j].e = "snapshot_download" /\ hist[j].mi = 2
    /\ ~\E j \in DOMAIN hist : Converts(j) /\ hist[j].mi = 2
    /\ \E i, j \in DOMAIN hist :
          /\ Launches(i, "llama-quantize") /\ hist[i].mi = 1
          /\ hist[j] = [hist[i] EXCEPT !.mi = 2]
    /\ \E i, j \in DOMAIN hist :
          /\ hist[i].e = "upload_folder" /\ hist[i].mi = 1
          /\ hist[j].e = "upload_folder" /\ hist[j].mi = 2
          /\ hist[i].what = hist[j].what
(***************************************************************************)
(* C31.                                                                    *)
(***************************************************************************)
\* the launches of llama-quantize that name the matrix file
WithMatrix ==
    {i \in DOMAIN hist : /\ Launches(i, "llama-quantize")
                          /\ HasInfix(hist[i].what, "--imatrix " \o args.imatrix_file \o " ")}

\* the computations of the matrix file that succeeded before event i
ComputedBefore(i) ==
    {j \in 1..(i - 1) : /\ Launches(j, "llama-imatrix")
                         /\ hist[j + 1].e = "exit" /\ hist[j + 1].code = 0}

\* the model reference the matrix file on the disk was computed for when
\* event i happened; "" when the batch has not computed it
Origin(i) ==
    IF ComputedBefore(i) = {} THEN ""
    ELSE RefOf(CHOOSE j \in ComputedBefore(i) : \A k \in ComputedBefore(i) : k <= j)

\* C31: the matrix file named in a launch of llama-quantize for a model was
\* not computed for another model of the batch, and a file the batch did not
\* compute is not passed for two different models
C31_OwnMatrix ==
    \A i \in WithMatrix :
        /\ Origin(i) \in {"", RefOf(i)}
        /\ \A j \in WithMatrix :
              (RefOf(j) # RefOf(i) /\ args.imatrix_file \in fs) =>
                  ~(Origin(i) = "" /\ Origin(j) = "")

\* the batch a/foo, b/bar with recomputation not forced found the matrix file
\* on the disk: the tool was launched for neither model and llama-quantize was
\* launched for both with that file
C31_OneFileForAll ==
    /\ model_list(args) = <<"a/foo", "b/bar">>
    /\ ~args.recompute_imatrix
    /\ pc.at = "done"
    /\ ~\E j \in DOMAIN hist : Launches(j, "llama-imatrix")
    /\ \E i, j \in WithMatrix : hist[i].mi = 1 /\ hist[j].mi = 2
    /\ args.imatrix_file \in fs
(***************************************************************************)
(* C32.                                                                    *)
(***************************************************************************)
ExtraneousKeys ==
    {"low_freq_factor", "high_freq_factor", "original_max_position_embeddings", "rope_type"}

\* the file holds a JSON object
IsObject(file) == file.layout \in {"pretty", "dump"} /\ file.json.kind = "dict"

HasKey(items, key) == \E i \in 1..Len(items) : items[i][1] = key

ValueOf(items, key) == (CHOOSE e \in {items[i] : i \in 1..Len(items)} : e[1] = key)[2]

\* the object has a rope_scaling entry that is itself an object
HasRopeDict(file) ==
    /\ IsObject(file)
    /\ HasKey(file.json.items, "rope_scaling")
    /\ ValueOf(file.json.items, "rope_scaling").kind = "dict"

\* the entries patch_model_config has no business with, in their order
OtherEntries(file) ==
    SelectSeq(file.json.items,
              LAMBDA pair : /\ pair[1] \notin ExtraneousKeys
                            /\ ~(pair[1] = "rope_scaling" /\ pair[2].kind = "dict"))

\* C32: patch_model_config applied to what it left changes nothing; after an
\* application to a configuration object none of the four extraneous
\* top-level keys is left, a rope_scaling entry that was an object has the two
\* keys type and factor, with the factor it had or 1.0, and stands where it
\* stood, and every other entry is as it was; a missing config.json stays
\* missing
C32_PatchIdempotent ==
    (raw.kind = "config" /\ res.n >= 1) =>
        /\ res.n = 2 => res.out = res.prev
        /\ raw.inp.layout = "missing" => res.out = raw.inp
        /\ IsObject(res.prev) =>
              /\ IsObject(res.out)
              /\ \A key \in ExtraneousKeys : ~HasKey(res.out.json.items, key)
              /\ OtherEntries(res.out) = OtherEntries(res.prev)
              /\ HasKey(res.out.json.items, "rope_scaling")
                    <=> HasKey(res.prev.json.items, "rope_scaling")
              /\ [i \in 1..Len(res.out.json.items) |-> res.out.json.items[i][1]]
                    = [i \in 1..Len(SelectSeq(res.prev.json.items,
                                               LAMBDA pair : pair[1] \notin ExtraneousKeys)) |->
                         SelectSeq(res.prev.json.items,
                                   LAMBDA pair : pair[1] \notin ExtraneousKeys)[i][1]]
        /\ HasRopeDict(res.prev) =>
              LET old == ValueOf(res.prev.json.items, "rope_scaling").items
                  new == ValueOf(res.out.json.items, "rope_scaling")
              IN  /\ new.kind = "dict"
                  /\ Len(new.items) = 2
                  /\ new.items[1][1] = "type" /\ new.items[2][1] = "factor"
                  /\ new.items[2][2] = IF HasKey(old, "factor") THEN ValueOf(old, "factor")
                                        ELSE [kind |-> "num", v |-> "1.0", items |-> <<>>]

\* a configuration with a three-key rope_scaling object, two extraneous keys
\* and two other keys was patched twice: the first application changed it
C32_Witness ==
    /\ raw.kind = "config" /\ res.n = 2
    /\ HasRopeDict(raw.inp)
    /\ Len(ValueOf(raw.inp.json.items, "rope_scaling").items) = 3
    /\ HasKey(raw.inp.json.items, "rope_type")
    /\ HasKey(raw.inp.json.items, "low_freq_factor")
    /\ Len(OtherEntries(raw.inp)) = 2
    /\ raw.inp.layout = "dump"
    /\ res.out # raw.inp
    /\ ValueOf(ValueOf(res.out.json.items, "rope_scaling").items, "factor").v = "8.0"
(***************************************************************************)
(* C33.                                                                    *)
(***************************************************************************)
\* the token starts with i1-, in either case of the i
HasI1(q) == Len(q) >= 3 /\ SubSeq(q, 1, 3) \in {"i1-", "I1-"}

\* no letter of s is a small letter
NoSmall(s) == \A i \in 1..Len(s) : ~HasInfix(LowerCase, SubSeq(s, i, i))

\* s and t are the same text but for the case of their letters
SameButCase(s, t) ==
    /\ Len(s) = Len(t)
    /\ \A i \in 1..Len(s) :
          \/ SubSeq(s, i, i) = SubSeq(t, i, i)
          \/ \E k \in 1..Len(LowerCase) :
                {SubSeq(s, i, i), SubSeq(t, i, i)}
                    = {SubSeq(LowerCase, k, k), SubSeq(UpperCase, k, k)}

\* C33: upload_quant names the repository <username>/<base>-<formatted type>;
\* the formatted type is the token with an i1- prefix, matched in either case,
\* written i1- and the rest in capitals, and otherwise the whole token in
\* capitals; formatting what was formatted changes nothing; so GGUF goes to
\* <base>-GGUF, i1-GGUF to <base>-i1-GGUF and exl2 to <base>-EXL2
C33_Destination ==
    (raw.kind = "qtype" /\ res.n >= 1) =>
        /\ res.n = 2 => res.out = res.prev
        /\ SameButCase(res.out, res.prev)
        /\ IF HasI1(res.prev)
           THEN /\ SubSeq(res.out, 1, 3) = "i1-"
                /\ NoSmall(SubSeq(res.out, 4, Len(res.out)))
           ELSE NoSmall(res.out)
        /\ res.n = 1 => res.repo = args.username \o "/foo-" \o res.out
        /\ raw.inp = "GGUF" => res.repo = "SpongeEngine/foo-GGUF"
        /\ raw.inp = "i1-GGUF" => res.repo = "SpongeEngine/foo-i1-GGUF"
        /\ raw.inp = "exl2" => res.repo = "SpongeEngine/foo-EXL2"

\* I1-gguf was formatted twice: i1-GGUF both times
C33_Witness ==
    /\ raw.kind = "qtype" /\ raw.inp = "I1-gguf"
    /\ res.n = 2
    /\ res.out = "i1-GGUF" /\ res.prev = "i1-GGUF"
    /\ res.repo = "SpongeEngine/foo-i1-GGUF"

\* the executor that was entered last before event j
ExecutorAt(j) ==
    hist[CHOOSE k \in 1..(j - 1) :
            /\ hist[k].e = "start"
            /\ \A l \in (k + 1)..(j - 1) : hist[l].e # "start"].what

\* in the runs of quant_tavern_ui every publish attempt names the repository
\* of its executor: <base>-GGUF or <base>-i1-GGUF by the matrix switch,
\* <base>-GPTQ, <base>-EXL2, <base>-AWQ, <base>-HQQ
C33_DestinationsOfTheRun ==
    \A j \in DOMAIN hist :
        hist[j].e = "create_repo" =>
            hist[j].what =
                args.username \o "/" \o BaseName(RefOf(j)) \o "-"
                    \o (CASE ExecutorAt(j) = "GGUF" ->
                                IF args.enable_imatrix THEN "i1-GGUF" ELSE "GGUF"
                          [] ExecutorAt(j) = "ExLlamaV2" -> "EXL2"
                          [] OTHER -> ExecutorAt(j))
====
